---- MODULE Spec2Model ----
(***************************************************************************)
(* Model of the twitter-plus plugin's decision core:                       *)
(*   - TwitterInteractionClient (post.ts:312-591): rate limiter, sweep and *)
(*     the check cycle of the engagement loop;                             *)
(*   - TwitterTemplateManager (template-manager.ts:183-351): template      *)
(*     selection with conditions, probability and cooldown table.          *)
(*   - buildConversationThread (post.ts:517-558), the posting loop of      *)
(*     TwitterPostClient (post.ts:103-171) and truncateToCompleteSentence  *)
(*     (post.ts:33-55), each under a specification of its own.             *)
(* Time is Date.now() in milliseconds.  Random draws are Math.random()     *)
(* in thousandths (an integer r stands for r/1000, 0 <= r < 1000).         *)
(***************************************************************************)
EXTENDS Integers, Sequences, FiniteSets, TLC

\* ------------------------------------------------------------------------
\* Bounds of the model
\* ------------------------------------------------------------------------
\* Date.now() when the clients are constructed.  Any value further from the
\* epoch than the largest configured window behaves the same.
StartTime == 200000000
\* number of times the clock is observed to advance
MaxTicks == 3
\* number of tweets the external search returns in one check cycle
MaxBatch == 2
\* number of template names of the large catalog
EvictNames == 101
\* number of times the clock advances while the large catalog is used
MaxEvictTicks == 1
\* number of tweets the external tweet lookup knows
MaxThreadTweets == 3
\* largest configured maxRepliesPerThread of a thread reconstruction
MaxThreadDepth == 3
\* number of start() calls on the post client
MaxStarts == 2
\* length of the longest text handed to truncateToCompleteSentence
MaxTextLength == 284

\* ------------------------------------------------------------------------
\* Program constants
\* ------------------------------------------------------------------------
\* 24 * 60 * 60 * 1000
ONE_DAY == 86400000
DEFAULT_MIN_TIME_BETWEEN_REPLIES == 300000

\* ------------------------------------------------------------------------
\* State
\* ------------------------------------------------------------------------
VARIABLES
    now,                    \* Date.now()
    ticks,                  \* how often the clock advanced (bounded)
    limits,                 \* TwitterInteractionClient.limits
    recentReplies,          \* Map userId -> reply count
    threadReplies,          \* Map conversationId -> reply count
    lastReplyTime,          \* Map userId -> time of last recorded reply
    lastSpecialInteraction, \* Record handle -> time
    lastCheckedTweetId,     \* client.lastCheckedTweetId, 0 = not set
    nextSweepAt,            \* due time of the setInterval sweep timer
    pc,                     \* position of the engagement loop
    batch,                  \* candidates of the cycle not yet considered
    cur,                    \* candidate whose pipeline is awaited
    lastAction,             \* history: the step taken last
    histUserReply,          \* history: user -> time of last recorded reply
    histThreadReply,        \* history: conversation -> time of last reply
    histPipelineId,         \* history: id of the tweet processSingleTweet
                            \* was last called for, 0 = none
    templates,              \* TwitterTemplateManager.config.templates
    lastTemplateUse,        \* Map name -> time, as its entries in order
    ret,                    \* the last getTemplate call and what it returned
    histReturned,           \* history: name -> time getTemplate returned it
    histEvicted,            \* history: names evicted since last returned
    store,                  \* tweets the external getTweet knows, by id
    leaf,                   \* the tweet buildConversationThread is called on
    tpc,                    \* position of buildConversationThread
    currentTweet,           \* processThread's currentTweet
    depth,                  \* processThread's depth
    thread,                 \* the chain being built
    visited,                \* ids of the tweets already in the chain
    lookupLog,              \* history: outcomes of the getTweet calls
    schedule,               \* TwitterPostClient.schedule
    cachedLastPost,         \* the timestamp of the cache entry
                            \* twitter/<username>/lastPost, if there is one
    isPosting,              \* TwitterPostClient.isPosting
    ppc,                    \* position of every start() of the post client
    body,                   \* position in the body of generateNewTweet
    timerDue,               \* due time of the pending setTimeout, 0 = none
    loopDelay,              \* delay of the current generateNewTweetLoop run
    actor,                  \* history: the start() that took the last step
    text,                   \* argument of truncateToCompleteSentence
    truncated,              \* what truncateToCompleteSentence returned
    tableWriters,           \* history: the schedulers whose ticks stamped
                            \* lastTemplateUse
    lastGeneratedContent,   \* TemplateEnhancedTwitterClient
                            \* .lastGeneratedContent: dedupe key -> entry
    generations,            \* how many generateTweetContent calls wrote
                            \* lastGeneratedContent (bounded)
    generated,              \* history: what the last generateTweetContent
                            \* call did and returned
    loaded,                 \* the special-interactions mapping of the file
    installed,              \* specialInteractions of the client of every
                            \* scheduler
    configured              \* runtime.getSetting of the engagement limits,
                            \* parsed as numbers

clockVars == <<now, ticks>>
rateVars == <<limits, recentReplies, threadReplies, lastReplyTime,
              lastSpecialInteraction, lastCheckedTweetId, nextSweepAt,
              pc, batch, cur, histUserReply, histThreadReply,
              histPipelineId>>
tmplVars == <<templates, lastTemplateUse, ret, histReturned, histEvicted>>
threadVars == <<store, leaf, tpc, currentTweet, depth, thread, visited,
                lookupLog>>
postVars == <<schedule, cachedLastPost, isPosting, ppc, body, timerDue,
              loopDelay, actor>>
truncVars == <<text, truncated>>
shareVars == <<tableWriters, lastGeneratedContent, generations, generated>>
managerVars == <<loaded, installed, configured>>
otherVars == <<shareVars, managerVars>>
sideVars == <<threadVars, postVars, truncVars, otherVars>>
vars == <<clockVars, rateVars, tmplVars, sideVars, lastAction>>

\* ------------------------------------------------------------------------
\* Maps (JavaScript Map / Record): functions on the set of present keys
\* ------------------------------------------------------------------------
EmptyMap == [k \in {} |-> 0]

\* m.get(k) || 0
GetOrZero(m, k) == IF k \in DOMAIN m THEN m[k] ELSE 0

\* m.set(k, v)
MapSet(m, k, v) == [x \in (DOMAIN m) \cup {k} |-> IF x = k THEN v ELSE m[x]]

\* the map without the keys in ks (m.delete(k) for every k in ks)
MapDelete(m, ks) == [x \in (DOMAIN m) \ ks |-> m[x]]

\* ------------------------------------------------------------------------
\* The outside world: what the external search can return
\* ------------------------------------------------------------------------
ProfileId == "agent"
Users == {"u1", "u2"}
Conversations == {"c1", "c2"}
SpecialHandles == {"h1"}

\* the two clients TwitterManager starts
Schedulers == {"engagement", "posting"}

\* tweet.username of the tweets of a user: u1 is the account the
\* special-interactions mapping names, u2 is an ordinary account
UsernameOf(userId) == IF userId = "u1" THEN "h1" ELSE userId

\* Tweet objects the search may hand out.  ref is the object identity: the
\* same tweet can arrive as two distinct objects.
SearchObjects ==
    { [id |-> 1, userId |-> "u1", conversationId |-> "c1", ref |-> 1],
      [id |-> 1, userId |-> "u1", conversationId |-> "c1", ref |-> 2],
      [id |-> 2, userId |-> "u1", conversationId |-> "c1", ref |-> 1],
      [id |-> 3, userId |-> "u2", conversationId |-> "c1", ref |-> 1],
      [id |-> 10, userId |-> "u1", conversationId |-> "c2", ref |-> 1],
      [id |-> 5, userId |-> ProfileId, conversationId |-> "c1", ref |-> 1] }

NoTweet == [id |-> 0, userId |-> "", conversationId |-> "", ref |-> 0]

SeqsUpTo(S, n) == UNION { [1..k -> S] : k \in 0..n }

\* Math.random() in thousandths
RandomDraws == {0, 500, 999}

\* clock advances that are observed
Deltas == {DEFAULT_MIN_TIME_BETWEEN_REPLIES - 1,
           DEFAULT_MIN_TIME_BETWEEN_REPLIES,
           ONE_DAY}

\* limits read from the settings by the constructor
LimitChoices ==
    { [maxRepliesPerThread |-> 2, maxRepliesPerUser |-> 1,
       minTimeBetweenReplies |-> DEFAULT_MIN_TIME_BETWEEN_REPLIES,
       replyProbability |-> 500],
      [maxRepliesPerThread |-> 1, maxRepliesPerUser |-> 2,
       minTimeBetweenReplies |-> DEFAULT_MIN_TIME_BETWEEN_REPLIES,
       replyProbability |-> 1000],
      [maxRepliesPerThread |-> 2, maxRepliesPerUser |-> 2,
       minTimeBetweenReplies |-> 2 * ONE_DAY,
       replyProbability |-> 500] }

\* ------------------------------------------------------------------------
\* Tweet ids are decimal strings: String(id) as the sequence of its digits
\* ------------------------------------------------------------------------
DigitChars == <<"0", "1", "2", "3", "4", "5", "6", "7", "8", "9">>

\* the value of a digit character
DigitOf(ch) == (CHOOSE i \in 1..10 : DigitChars[i] = ch) - 1

RECURSIVE IdString(_)
IdString(n) ==
    IF n < 10 THEN <<DigitChars[n + 1]>>
    ELSE Append(IdString(n \div 10), DigitChars[(n % 10) + 1])

\* a.localeCompare(b) on digit strings: -1, 0 or 1 (character by character,
\* a proper prefix sorts first)
RECURSIVE LocaleCompare(_, _)
LocaleCompare(a, b) ==
    IF a = <<>> /\ b = <<>> THEN 0
    ELSE IF a = <<>> THEN -1
    ELSE IF b = <<>> THEN 1
    ELSE IF DigitOf(Head(a)) < DigitOf(Head(b)) THEN -1
    ELSE IF DigitOf(Head(a)) > DigitOf(Head(b)) THEN 1
    ELSE LocaleCompare(Tail(a), Tail(b))

\* [...new Set(arr)]: first occurrence of every object, in order
RECURSIVE UniqueObjects(_)
UniqueObjects(arr) ==
    IF arr = <<>> THEN <<>>
    ELSE LET rest == UniqueObjects(SubSeq(arr, 1, Len(arr) - 1))
             x == arr[Len(arr)]
         IN IF \E i \in 1..Len(rest) : rest[i] = x THEN rest
            ELSE Append(rest, x)

\* position at which x goes into the sorted sequence s (after its equals)
RECURSIVE InsertById(_, _)
InsertById(s, x) ==
    IF s = <<>> THEN <<x>>
    ELSE IF LocaleCompare(IdString(s[Len(s)].id), IdString(x.id)) <= 0
         THEN Append(s, x)
         ELSE Append(InsertById(SubSeq(s, 1, Len(s) - 1), x), s[Len(s)])

\* arr.sort((a, b) => a.id.localeCompare(b.id)), a stable sort
RECURSIVE SortById(_)
SortById(arr) ==
    IF arr = <<>> THEN <<>>
    ELSE InsertById(SortById(SubSeq(arr, 1, Len(arr) - 1)), arr[Len(arr)])

\* arr.filter(tweet => tweet.userId !== this.client.profile.id)
RECURSIVE NotSelfAuthored(_)
NotSelfAuthored(arr) ==
    IF arr = <<>> THEN <<>>
    ELSE IF Head(arr).userId # ProfileId
         THEN <<Head(arr)>> \o NotSelfAuthored(Tail(arr))
         ELSE NotSelfAuthored(Tail(arr))

\* fetchAndFilterTweets applied to the tweets the search returned
fetchAndFilterTweets(tweets) == NotSelfAuthored(SortById(UniqueObjects(tweets)))

\* ------------------------------------------------------------------------
\* Rate limiter
\* ------------------------------------------------------------------------
\* mutants of canReplyToUser: strict comparison of the elapsed time; OR in
\* place of AND; no recency condition
canReplyToUser_Strict(userId) ==
    GetOrZero(recentReplies, userId) < limits.maxRepliesPerUser
    /\ now - GetOrZero(lastReplyTime, userId) > limits.minTimeBetweenReplies

canReplyToUser_Or(userId) ==
    GetOrZero(recentReplies, userId) < limits.maxRepliesPerUser
    \/ now - GetOrZero(lastReplyTime, userId) >= limits.minTimeBetweenReplies

canReplyToUser_CountOnly(userId) ==
    GetOrZero(recentReplies, userId) < limits.maxRepliesPerUser

canReplyToUser(userId) ==
    LET replyCount == GetOrZero(recentReplies, userId)
        last == GetOrZero(lastReplyTime, userId)
        timeSinceLastReply == now - last
    IN replyCount < limits.maxRepliesPerUser
       /\ timeSinceLastReply >= limits.minTimeBetweenReplies

\* mutant of canReplyInThread: off by one
canReplyInThread_OffByOne(conversationId) ==
    GetOrZero(threadReplies, conversationId) <= limits.maxRepliesPerThread

canReplyInThread(conversationId) ==
    GetOrZero(threadReplies, conversationId) < limits.maxRepliesPerThread

\* r is the Math.random() draw of the probability check
shouldProcessTweet(tweet, r) ==
    IF ~canReplyToUser(tweet.userId) \/ ~canReplyInThread(tweet.conversationId)
    THEN FALSE
    ELSE IF r > limits.replyProbability THEN FALSE
    ELSE TRUE

\* mutants of updateInteractionTracking: the thread count restarts at 1;
\* the user counts are rebuilt with the replied user only
updateInteractionTracking_ThreadReset(userId, conversationId) ==
    [recentReplies |->
        MapSet(recentReplies, userId, GetOrZero(recentReplies, userId) + 1),
     threadReplies |-> MapSet(threadReplies, conversationId, 1),
     lastReplyTime |-> MapSet(lastReplyTime, userId, now)]

updateInteractionTracking_FreshMap(userId, conversationId) ==
    [recentReplies |->
        MapSet(EmptyMap, userId, GetOrZero(recentReplies, userId) + 1),
     threadReplies |->
        MapSet(threadReplies, conversationId,
               GetOrZero(threadReplies, conversationId) + 1),
     lastReplyTime |-> MapSet(lastReplyTime, userId, now)]

\* the three maps after updateInteractionTracking(userId, conversationId)
updateInteractionTracking(userId, conversationId) ==
    [recentReplies |->
        MapSet(recentReplies, userId, GetOrZero(recentReplies, userId) + 1),
     threadReplies |->
        MapSet(threadReplies, conversationId,
               GetOrZero(threadReplies, conversationId) + 1),
     lastReplyTime |-> MapSet(lastReplyTime, userId, now)]

\* mutant of cleanupTrackingMaps: entries exactly one day old are removed
cleanupTrackingMaps_Inclusive ==
    LET oneDayAgo == now - ONE_DAY
        oldUsers == {u \in DOMAIN lastReplyTime : lastReplyTime[u] <= oneDayAgo}
        oldKeys == {k \in DOMAIN lastSpecialInteraction :
                        lastSpecialInteraction[k] <= oneDayAgo}
    IN [lastReplyTime |-> MapDelete(lastReplyTime, oldUsers),
        recentReplies |-> MapDelete(recentReplies, oldUsers),
        threadReplies |-> EmptyMap,
        lastSpecialInteraction |-> MapDelete(lastSpecialInteraction, oldKeys)]

\* the maps after cleanupTrackingMaps()
cleanupTrackingMaps ==
    LET oneDayAgo == now - ONE_DAY
        oldUsers == {u \in DOMAIN lastReplyTime : lastReplyTime[u] < oneDayAgo}
        oldKeys == {k \in DOMAIN lastSpecialInteraction :
                        lastSpecialInteraction[k] < oneDayAgo}
    IN [lastReplyTime |-> MapDelete(lastReplyTime, oldUsers),
        recentReplies |-> MapDelete(recentReplies, oldUsers),
        threadReplies |-> EmptyMap,
        lastSpecialInteraction |-> MapDelete(lastSpecialInteraction, oldKeys)]

\* ------------------------------------------------------------------------
\* JavaScript values of contexts and conditions.  A string is the sequence
\* of its characters.
\* ------------------------------------------------------------------------
Undefined == [t |-> "undefined"]
NaN == [t |-> "NaN"]
Num(n) == [t |-> "number", n |-> n]
Str(s) == [t |-> "string", s |-> s]
Obj(f) == [t |-> "object", f |-> f]

\* String(v)
StringOf(v) ==
    CASE v.t = "undefined" -> <<"u", "n", "d", "e", "f", "i", "n", "e", "d">>
      [] v.t = "NaN" -> <<"N", "a", "N">>
      [] v.t = "number" -> IdString(v.n)
      [] v.t = "string" -> v.s
      [] v.t = "object" -> <<"[", "o", "b", "j", "e", "c", "t", " ",
                             "O", "b", "j", "e", "c", "t", "]">>

\* the number a string of digits denotes
RECURSIVE DigitsValue(_)
DigitsValue(s) ==
    IF s = <<>> THEN 0
    ELSE 10 * DigitsValue(SubSeq(s, 1, Len(s) - 1)) + DigitOf(s[Len(s)])

\* Number(v): the empty string is 0, digits are their number, anything
\* else is NaN
ToNumber(v) ==
    CASE v.t = "number" -> v
      [] v.t = "string" ->
            IF \A i \in 1..Len(v.s) : \E d \in 1..10 : DigitChars[d] = v.s[i]
            THEN Num(DigitsValue(v.s)) ELSE NaN
      [] OTHER -> NaN

\* a === b
StrictEquals(a, b) ==
    /\ a.t = b.t
    /\ CASE a.t = "number" -> a.n = b.n
         [] a.t = "string" -> a.s = b.s
         [] a.t = "undefined" -> TRUE
         [] OTHER -> FALSE

\* hay.includes(needle)
Includes(hay, needle) ==
    \E i \in 0..(Len(hay) - Len(needle)) :
        \A j \in 1..Len(needle) : hay[i + j] = needle[j]

\* new RegExp(pattern).test(s) for patterns made of literal characters and
\* the wildcard "."
RegExpTest(pattern, s) ==
    \E i \in 0..(Len(s) - Len(pattern)) :
        \A j \in 1..Len(pattern) : pattern[j] = "." \/ s[i + j] = pattern[j]

\* path.split('.')
RECURSIVE SplitDots(_)
SplitDots(path) ==
    IF \A i \in 1..Len(path) : path[i] # "." THEN <<path>>
    ELSE LET k == CHOOSE i \in 1..Len(path) :
                      path[i] = "." /\ \A j \in 1..(i - 1) : path[j] # "."
         IN <<SubSeq(path, 1, k - 1)>>
                \o SplitDots(SubSeq(path, k + 1, Len(path)))

\* acc?.[part]
Member(acc, part) ==
    IF acc.t = "object" /\ part \in DOMAIN acc.f THEN acc.f[part]
    ELSE IF acc.t = "string" /\ part = <<"l", "e", "n", "g", "t", "h">>
         THEN Num(Len(acc.s))
    ELSE Undefined

RECURSIVE ReduceMember(_, _)
ReduceMember(acc, parts) ==
    IF parts = <<>> THEN acc
    ELSE ReduceMember(Member(acc, Head(parts)), Tail(parts))

getFieldValue(obj, path) == ReduceMember(obj, SplitDots(path))

\* ------------------------------------------------------------------------
\* Template selector
\* ------------------------------------------------------------------------
\* 5 * 60 * 1000
COOLDOWN_MS == 300000
MAX_TRACKED_TEMPLATES == 100
KEPT_TEMPLATES == 50

\* optional fields that are absent
NoConditions == [present |-> FALSE, list |-> <<>>]
Conditions(list) == [present |-> TRUE, list |-> list]
NoProbability == -1
Null == [name |-> 0, conditions |-> NoConditions, probability |-> NoProbability]
NoCall == [type |-> "", context |-> "", selected |-> Null, again |-> FALSE]

\* contexts handed to getTemplate
Contexts ==
    [morning |->
        Obj([k \in {<<"h">>, <<"p">>, <<"m">>} |->
               CASE k = <<"h">> -> Num(9)
                 [] k = <<"p">> -> Str(<<"m", "o", "o", "n">>)
                 [] k = <<"m">> -> Obj([j \in {<<"t">>} |-> Str(<<"g", "m">>)])]),
     night |->
        Obj([k \in {<<"h">>, <<"p">>} |->
               CASE k = <<"h">> -> Num(23)
                 [] k = <<"p">> -> Str(<<"g", "n">>)])]

\* template catalogs of the configuration file
PzCatalog ==
    [pz |-> << [name |-> 1, conditions |-> NoConditions, probability |-> 0],
               [name |-> 2, conditions |-> NoConditions,
                probability |-> 1000] >>]

CondCatalog ==
    [cond |-> << [name |-> 3,
                  conditions |-> Conditions(
                    << [field |-> <<"h">>, operator |-> "lessThan",
                        value |-> Str(<<"1", "2">>)],
                       [field |-> <<"p">>, operator |-> "contains",
                        value |-> Str(<<"o", "o">>)] >>),
                  probability |-> NoProbability],
                 [name |-> 4,
                  conditions |-> Conditions(
                    << [field |-> <<"p">>, operator |-> "matches",
                        value |-> Str(<<"g", ".">>)],
                       [field |-> <<"h">>, operator |-> "greaterThan",
                        value |-> Num(20)] >>),
                  probability |-> 500],
                 [name |-> 5,
                  conditions |-> Conditions(
                    << [field |-> <<"m", ".", "t">>, operator |-> "equals",
                        value |-> Str(<<"g", "m">>)],
                       [field |-> <<"h">>, operator |-> "between",
                        value |-> Num(0)] >>),
                  probability |-> NoProbability] >>]

TemplateTypes == {"pz", "cond", "none"}

evaluateCondition(condition, context) ==
    LET value == getFieldValue(context, condition.field)
    IN CASE condition.operator = "contains" ->
                Includes(StringOf(value), StringOf(condition.value))
         [] condition.operator = "equals" ->
                StrictEquals(value, condition.value)
         [] condition.operator = "greaterThan" ->
                LET a == ToNumber(value)
                    b == ToNumber(condition.value)
                IN a.t = "number" /\ b.t = "number" /\ a.n > b.n
         [] condition.operator = "lessThan" ->
                LET a == ToNumber(value)
                    b == ToNumber(condition.value)
                IN a.t = "number" /\ b.t = "number" /\ a.n < b.n
         [] condition.operator = "matches" ->
                RegExpTest(StringOf(condition.value), StringOf(value))
         [] OTHER -> FALSE

\* r is the Math.random() draw
checkProbability(template, r) ==
    (template.probability = NoProbability \/ template.probability = 0)
    \/ r < template.probability

\* lastTemplateUse.get(name) || 0
LastUseOf(table, templateName) ==
    IF \E i \in 1..Len(table) : table[i].name = templateName
    THEN table[CHOOSE i \in 1..Len(table) : table[i].name = templateName].at
    ELSE 0

\* mutant of isTemplateOnCooldown: the window is counted in seconds
isTemplateOnCooldown_Seconds(templateName) ==
    LET lastUse == LastUseOf(lastTemplateUse, templateName)
    IN IF lastUse = 0 THEN FALSE
       ELSE (now - lastUse) < 5 * 60

isTemplateOnCooldown(templateName) ==
    LET lastUse == LastUseOf(lastTemplateUse, templateName)
    IN IF lastUse = 0 THEN FALSE
       ELSE (now - lastUse) < COOLDOWN_MS

\* mutant of conditionsHold: one matching condition is enough
conditionsHold_Some(template, context) ==
    \E i \in 1..Len(template.conditions.list) :
        evaluateCondition(template.conditions.list[i], context)

\* template.conditions.every(condition => evaluateCondition(condition, ctx))
conditionsHold(template, context) ==
    \A i \in 1..Len(template.conditions.list) :
        evaluateCondition(template.conditions.list[i], context)

\* the filter of getTemplate; r is the draw of the template's trial
isEligible(template, context, r) ==
    IF isTemplateOnCooldown(template.name) THEN FALSE
    ELSE IF ~template.conditions.present
         THEN checkProbability(template, r)
         ELSE conditionsHold(template, context) /\ checkProbability(template, r)

\* lastTemplateUse.set(name, at): a known key keeps its place
TableSet(table, templateName, at) ==
    IF \E i \in 1..Len(table) : table[i].name = templateName
    THEN [i \in 1..Len(table) |->
             IF table[i].name = templateName
             THEN [name |-> templateName, at |-> at] ELSE table[i]]
    ELSE Append(table, [name |-> templateName, at |-> at])

\* mutant of RankByUse: the sort is oldest first
RankByUse_OldestFirst(entries, i) ==
    1 + Cardinality({j \in 1..Len(entries) :
                        \/ entries[j].at < entries[i].at
                        \/ entries[j].at = entries[i].at /\ j < i})

\* entries.sort(([, a], [, b]) => b - a), a stable sort, newest first:
\* an entry comes after the entries used later and the entries used at the
\* same time that precede it
RankByUse(entries, i) ==
    1 + Cardinality({j \in 1..Len(entries) :
                        \/ entries[j].at > entries[i].at
                        \/ entries[j].at = entries[i].at /\ j < i})

\* the names trackTemplateUse deletes from a table that has grown too big:
\* those of sorted.slice(50), the entries from place 51 of the sorted table
OldEntries(table) ==
    IF Len(table) > MAX_TRACKED_TEMPLATES
    THEN {table[i].name :
            i \in {j \in 1..Len(table) : RankByUse(table, j) > KEPT_TEMPLATES}}
    ELSE {}

\* the entries of table whose name is not in names, in order
TableDelete(table, names) ==
    LET Kept(entry) == entry.name \notin names
    IN SelectSeq(table, Kept)

\* lastTemplateUse after trackTemplateUse(templateName)
trackTemplateUse(templateName) ==
    LET stamped == TableSet(lastTemplateUse, templateName, now)
    IN TableDelete(stamped, OldEntries(stamped))

\* ------------------------------------------------------------------------
\* Initial state: after the constructor and setSpecialInteractions
\* ------------------------------------------------------------------------
InitClock == now = StartTime /\ ticks = 0

InitRateWith(l) ==
    /\ limits = l
    /\ recentReplies = EmptyMap
    /\ threadReplies = EmptyMap
    /\ lastReplyTime = EmptyMap
    /\ lastSpecialInteraction = [h \in SpecialHandles |-> 0]
    /\ lastCheckedTweetId = 0
    /\ nextSweepAt = StartTime + ONE_DAY
    /\ pc = "idle"
    /\ batch = <<>>
    /\ cur = NoTweet
    /\ histUserReply = EmptyMap
    /\ histThreadReply = EmptyMap
    /\ histPipelineId = 0

InitRate == \E l \in LimitChoices : InitRateWith(l)

InitTemplates(catalog) ==
    /\ templates = catalog
    /\ lastTemplateUse = <<>>
    /\ ret = NoCall
    /\ histReturned = EmptyMap
    /\ histEvicted = {}

\* no thread reconstruction was asked for
NoThreadTweet == [id |-> 0, inReplyToStatusId |-> 0]

InitThreadIdle ==
    /\ store = <<>>
    /\ leaf = NoThreadTweet
    /\ tpc = "idle"
    /\ currentTweet = NoThreadTweet
    /\ depth = 0
    /\ thread = <<>>
    /\ visited = {}
    /\ lookupLog = <<>>

Starters == 1..MaxStarts

\* POST_INTERVAL_MIN and POST_INTERVAL_MAX are not configured
DefaultSchedule == [minMinutes |-> 90, maxMinutes |-> 180, lastPostTime |-> 0]

\* the post client after its constructor, lastPost being what the cache
\* holds
InitPostWith(lastPost) ==
    /\ schedule = DefaultSchedule
    /\ cachedLastPost = lastPost
    /\ isPosting = FALSE
    /\ ppc = [i \in Starters |-> "notStarted"]
    /\ body = [i \in Starters |-> "none"]
    /\ timerDue = [i \in Starters |-> 0]
    /\ loopDelay = [i \in Starters |-> 0]
    /\ actor = 0

InitTruncIdle == text = <<>> /\ truncated = <<>>

\* no scheduler has asked the shared client for a template yet
\* the last generateTweetContent call: none yet
NoGeneration ==
    [key |-> <<>>, hit |-> FALSE, selected |-> FALSE, asked |-> FALSE,
     oracle |-> FALSE, threw |-> FALSE, content |-> <<>>]

InitShare ==
    /\ tableWriters = {}
    /\ lastGeneratedContent = EmptyMap
    /\ generations = 0
    /\ generated = NoGeneration

\* a setting that is not configured
NoSetting == -1

NoSettings ==
    [MAX_REPLIES_PER_THREAD |-> NoSetting, MAX_REPLIES_PER_USER |-> NoSetting,
     MIN_TIME_BETWEEN_REPLIES |-> NoSetting, REPLY_PROBABILITY |-> NoSetting]

\* no special-interactions file was loaded; the limits are configured by st
InitManagerWith(st) ==
    /\ loaded = EmptyMap
    /\ installed = [s \in Schedulers |-> EmptyMap]
    /\ configured = st

InitManager == InitManagerWith(NoSettings)

InitOther == InitShare /\ InitManager

InitSide == InitThreadIdle /\ InitPostWith(Undefined) /\ InitTruncIdle /\ InitOther

Init ==
    /\ InitClock /\ InitRate /\ InitTemplates(PzCatalog) /\ InitSide
    /\ lastAction = "Init"

\* ------------------------------------------------------------------------
\* Steps
\* ------------------------------------------------------------------------
\* the clock advances
Tick(d) ==
    /\ ticks < MaxTicks
    /\ now' = now + d
    /\ ticks' = ticks + 1
    /\ lastAction' = "Tick"

ClockAdvances(d) == Tick(d) /\ UNCHANGED <<rateVars, tmplVars, sideVars>>

\* the check timer fires: handleTwitterInteractions starts fetching
StartCycle ==
    /\ pc = "idle"
    /\ pc' = "fetching"
    /\ lastAction' = "StartCycle"
    /\ UNCHANGED <<clockVars, tmplVars, sideVars, limits,
                   recentReplies, threadReplies,
                   lastReplyTime, lastSpecialInteraction, lastCheckedTweetId,
                   nextSweepAt, batch, cur, histUserReply, histThreadReply,
                   histPipelineId>>

\* the search answers with tweets
FetchReturns(tweets) ==
    /\ pc = "fetching"
    /\ batch' = fetchAndFilterTweets(tweets)
    /\ pc' = "loop"
    /\ lastAction' = "FetchReturns"
    /\ UNCHANGED <<clockVars, tmplVars, sideVars, limits,
                   recentReplies, threadReplies,
                   lastReplyTime, lastSpecialInteraction, lastCheckedTweetId,
                   nextSweepAt, cur, histUserReply, histThreadReply,
                   histPipelineId>>

\* the search fails: caught by handleTwitterInteractions
FetchThrows ==
    /\ pc = "fetching"
    /\ pc' = "idle"
    /\ lastAction' = "FetchThrows"
    /\ UNCHANGED <<clockVars, tmplVars, sideVars, limits,
                   recentReplies, threadReplies,
                   lastReplyTime, lastSpecialInteraction, lastCheckedTweetId,
                   nextSweepAt, batch, cur, histUserReply, histThreadReply,
                   histPipelineId>>

\* processTweetCandidate up to its first suspension point
ConsiderCandidate(r) ==
    /\ pc = "loop"
    /\ batch # <<>>
    /\ LET tweet == Head(batch)
       IN IF lastCheckedTweetId = 0 \/ tweet.id > lastCheckedTweetId
          THEN IF ~shouldProcessTweet(tweet, r)
               THEN /\ pc' = "loop"
                    /\ cur' = NoTweet
                    /\ lastAction' = "Rejected"
               ELSE /\ pc' = "pipeline"
                    /\ cur' = tweet
                    /\ lastAction' = "Admitted"
          ELSE /\ pc' = "loop"
               /\ cur' = NoTweet
               /\ lastAction' = "AlreadyChecked"
    /\ histPipelineId' = IF lastAction' = "Admitted"
                         THEN Head(batch).id ELSE histPipelineId
    /\ batch' = Tail(batch)
    /\ UNCHANGED <<clockVars, tmplVars, sideVars, limits,
                   recentReplies, threadReplies,
                   lastReplyTime, lastSpecialInteraction, lastCheckedTweetId,
                   nextSweepAt, histUserReply, histThreadReply>>

\* mutant of PipelineReturns: the reply is recorded whatever handleTweet
\* answered
PipelineReturns_AlwaysRecords(action) ==
    /\ pc = "pipeline"
    /\ LET t == updateInteractionTracking(cur.userId, cur.conversationId)
       IN /\ recentReplies' = t.recentReplies
          /\ threadReplies' = t.threadReplies
          /\ lastReplyTime' = t.lastReplyTime
          /\ histUserReply' = MapSet(histUserReply, cur.userId, now)
          /\ histThreadReply' =
                 MapSet(histThreadReply, cur.conversationId, now)
    /\ lastAction' = IF action = "RESPOND" THEN "Responded"
                     ELSE "NotResponded"
    /\ lastCheckedTweetId' = cur.id
    /\ pc' = "loop"
    /\ cur' = NoTweet
    /\ UNCHANGED <<clockVars, tmplVars, sideVars, limits,
                   lastSpecialInteraction, nextSweepAt,
                   batch, histPipelineId>>

\* processSingleTweet resumes after handleTweet answered with action
PipelineReturns(action) ==
    /\ pc = "pipeline"
    /\ IF action = "RESPOND"
       THEN LET t == updateInteractionTracking(cur.userId, cur.conversationId)
            IN /\ recentReplies' = t.recentReplies
               /\ threadReplies' = t.threadReplies
               /\ lastReplyTime' = t.lastReplyTime
               /\ histUserReply' = MapSet(histUserReply, cur.userId, now)
               /\ histThreadReply' =
                      MapSet(histThreadReply, cur.conversationId, now)
               /\ lastAction' = "Responded"
       ELSE /\ UNCHANGED <<recentReplies, threadReplies, lastReplyTime,
                           histUserReply, histThreadReply,
                   histPipelineId>>
            /\ lastAction' = "NotResponded"
    /\ lastCheckedTweetId' = cur.id
    /\ pc' = "loop"
    /\ cur' = NoTweet
    /\ UNCHANGED <<clockVars, tmplVars, sideVars, limits,
                   lastSpecialInteraction, nextSweepAt,
                   batch, histPipelineId>>

\* setupTweetContext or the thread reconstruction fails: the error leaves
\* processTweetCandidate and the for loop, the catch of
\* handleTwitterInteractions ends the cycle
PipelineThrows ==
    /\ pc = "pipeline"
    /\ pc' = "idle"
    /\ batch' = <<>>
    /\ cur' = NoTweet
    /\ lastAction' = "PipelineThrows"
    /\ UNCHANGED <<clockVars, tmplVars, sideVars, limits,
                   recentReplies, threadReplies,
                   lastReplyTime, lastSpecialInteraction, lastCheckedTweetId,
                   nextSweepAt, histUserReply, histThreadReply,
                   histPipelineId>>

\* all candidates considered: cacheLatestCheckedTweetId, next check scheduled
EndCycle ==
    /\ pc = "loop"
    /\ batch = <<>>
    /\ pc' = "idle"
    /\ lastAction' = "EndCycle"
    /\ UNCHANGED <<clockVars, tmplVars, sideVars, limits,
                   recentReplies, threadReplies,
                   lastReplyTime, lastSpecialInteraction, lastCheckedTweetId,
                   nextSweepAt, batch, cur, histUserReply, histThreadReply,
                   histPipelineId>>

\* the 24h interval timer runs cleanupTrackingMaps; timers only run while
\* the loop is suspended
Sweep ==
    /\ pc \in {"idle", "fetching", "pipeline"}
    /\ now >= nextSweepAt
    /\ LET t == cleanupTrackingMaps
       IN /\ lastReplyTime' = t.lastReplyTime
          /\ recentReplies' = t.recentReplies
          /\ threadReplies' = t.threadReplies
          /\ lastSpecialInteraction' = t.lastSpecialInteraction
    /\ nextSweepAt' = nextSweepAt + ONE_DAY
    /\ lastAction' = "Sweep"
    /\ UNCHANGED <<clockVars, tmplVars, sideVars, limits,
                   lastCheckedTweetId, pc, batch, cur,
                   histUserReply, histThreadReply,
                   histPipelineId>>

HandlerResults == {"RESPOND", "IGNORE", "ERROR"}

Next ==
    \/ \E d \in Deltas : ClockAdvances(d)
    \/ StartCycle
    \/ \E tweets \in SeqsUpTo(SearchObjects, MaxBatch) : FetchReturns(tweets)
    \/ FetchThrows
    \/ \E r \in RandomDraws : ConsiderCandidate(r)
    \/ \E action \in HandlerResults : PipelineReturns(action)
    \/ PipelineThrows
    \/ EndCycle
    \/ Sweep

Spec == Init /\ [][Next]_vars

\* ------------------------------------------------------------------------
\* The template selector on its own
\* ------------------------------------------------------------------------
\* getTemplate(type, context); draws are the Math.random() values of the
\* templates' probability trials, k is the template the shuffle puts first
getTemplate(type, context, draws, k) ==
    LET group == IF type \in DOMAIN templates THEN templates[type] ELSE <<>>
        eligibleTemplates ==
            {i \in 1..Len(group) :
                isEligible(group[i], Contexts[context], draws[i])}
    IN IF eligibleTemplates = {}
       THEN /\ k = 0
            /\ ret' = [type |-> type, context |-> context, selected |-> Null,
                       again |-> FALSE]
            /\ UNCHANGED <<lastTemplateUse, histReturned, histEvicted>>
       ELSE /\ k \in eligibleTemplates
            /\ LET selected == group[k]
                   stamped == TableSet(lastTemplateUse, selected.name, now)
               IN /\ lastTemplateUse' = trackTemplateUse(selected.name)
                  /\ ret' = [type |-> type, context |-> context,
                             selected |-> selected,
                             again |-> selected.name \in DOMAIN histReturned]
                  /\ histReturned' = MapSet(histReturned, selected.name, now)
                  /\ histEvicted' = (histEvicted \ {selected.name})
                                        \cup OldEntries(stamped)

GroupSize(type) == IF type \in DOMAIN templates THEN Len(templates[type]) ELSE 0

GetTemplateCall(type, context) ==
    /\ \E draws \in [1..GroupSize(type) -> RandomDraws] :
         \E k \in 0..GroupSize(type) : getTemplate(type, context, draws, k)
    /\ lastAction' = "GetTemplate"
    /\ UNCHANGED <<clockVars, rateVars, sideVars, templates>>

\* the limits when only the template selector is exercised
DefaultLimits ==
    [maxRepliesPerThread |-> 2, maxRepliesPerUser |-> 5,
     minTimeBetweenReplies |-> DEFAULT_MIN_TIME_BETWEEN_REPLIES,
     replyProbability |-> 500]

InitTemplate ==
    /\ InitClock
    /\ InitRateWith(DefaultLimits)
    /\ \E catalog \in {PzCatalog, CondCatalog} : InitTemplates(catalog)
    /\ InitSide
    /\ lastAction = "Init"

\* clock advances observed between template selections
TemplateDeltas == {COOLDOWN_MS - 1, COOLDOWN_MS}

NextTemplate ==
    \/ \E d \in TemplateDeltas : ClockAdvances(d)
    \/ \E type \in TemplateTypes : \E context \in DOMAIN Contexts :
           GetTemplateCall(type, context)

SpecTemplate == InitTemplate /\ [][NextTemplate]_vars

\* ------------------------------------------------------------------------
\* The template selector with a catalog of more names than the cooldown
\* table keeps: one group per name, requested in the order of the names; a
\* probe name is requested again at any time
\* ------------------------------------------------------------------------
LargeCatalog ==
    [n \in 1..EvictNames |->
        << [name |-> n, conditions |-> NoConditions,
            probability |-> NoProbability] >>]

EvictProbes == {1, MAX_TRACKED_TEMPLATES + 1}

\* the clock is observed to advance after this many names were requested
EvictTickPoints == {KEPT_TEMPLATES, KEPT_TEMPLATES + 10,
                    MAX_TRACKED_TEMPLATES + 1}

InitEvict ==
    /\ InitClock
    /\ InitRateWith(DefaultLimits)
    /\ InitTemplates(LargeCatalog)
    /\ InitSide
    /\ lastAction = "Init"

EvictClockAdvances ==
    /\ ticks < MaxEvictTicks
    /\ Cardinality(DOMAIN histReturned) \in EvictTickPoints
    /\ \E d \in TemplateDeltas : ClockAdvances(d)

EvictCall(n) ==
    /\ \/ n = Cardinality(DOMAIN histReturned) + 1
       \/ n \in EvictProbes /\ n \in DOMAIN histReturned
    /\ GetTemplateCall(n, "morning")

NextEvict ==
    \/ EvictClockAdvances
    \/ \E n \in 1..EvictNames : EvictCall(n)

SpecEvict == InitEvict /\ [][NextEvict]_vars

\* ------------------------------------------------------------------------
\* The constructor of TwitterInteractionClient reading the configured, and
\* the engagement loop under the limits of the rate-limit scenario
\* ------------------------------------------------------------------------
\* parseInt(setting) || fallback: NaN and 0 give the fallback
ParseIntOr(setting, fallback) ==
    IF setting = NoSetting \/ setting = 0 THEN fallback ELSE setting

\* parseFloat(setting) || fallback, in thousandths
ParseFloatOr(setting, fallback) ==
    IF setting = NoSetting \/ setting = 0 THEN fallback ELSE setting

\* this.limits = {...}
constructorLimits(settings) ==
    [maxRepliesPerThread |-> ParseIntOr(settings.MAX_REPLIES_PER_THREAD, 2),
     maxRepliesPerUser |-> ParseIntOr(settings.MAX_REPLIES_PER_USER, 5),
     minTimeBetweenReplies |->
         ParseIntOr(settings.MIN_TIME_BETWEEN_REPLIES,
                    DEFAULT_MIN_TIME_BETWEEN_REPLIES),
     replyProbability |-> ParseFloatOr(settings.REPLY_PROBABILITY, 500)]

\* maxRepliesPerUser 1, minTimeBetweenReplies 0, replyProbability 1
ScenarioSettings ==
    [MAX_REPLIES_PER_THREAD |-> NoSetting, MAX_REPLIES_PER_USER |-> 1,
     MIN_TIME_BETWEEN_REPLIES |-> 0, REPLY_PROBABILITY |-> 1000]

InitScenario ==
    /\ InitClock
    /\ InitRateWith(constructorLimits(ScenarioSettings))
    /\ InitTemplates(PzCatalog)
    /\ InitThreadIdle /\ InitPostWith(Undefined) /\ InitTruncIdle /\ InitShare
    /\ InitManagerWith(ScenarioSettings)
    /\ lastAction = "Init"

SpecScenario == InitScenario /\ [][Next]_vars

\* the constructor under any settings: every limit is not configured, is
\* configured as 0, or as another number
SettingChoices ==
    [MAX_REPLIES_PER_THREAD : {NoSetting, 0, 3},
     MAX_REPLIES_PER_USER : {NoSetting, 0, 1},
     MIN_TIME_BETWEEN_REPLIES : {NoSetting, 0, 60000},
     REPLY_PROBABILITY : {NoSetting, 0, 1000}]

\* the limits before the constructor has assigned them
NoLimits ==
    [maxRepliesPerThread |-> 0, maxRepliesPerUser |-> 0,
     minTimeBetweenReplies |-> 0, replyProbability |-> 0]

InitSettings ==
    /\ InitClock
    /\ InitRateWith(NoLimits)
    /\ InitTemplates(PzCatalog)
    /\ InitThreadIdle /\ InitPostWith(Undefined) /\ InitTruncIdle /\ InitShare
    /\ \E st \in SettingChoices : InitManagerWith(st)
    /\ lastAction = "Init"

\* new TwitterInteractionClient(client, runtime)
Construct ==
    /\ lastAction = "Init"
    /\ limits' = constructorLimits(configured)
    /\ lastAction' = "Construct"
    /\ UNCHANGED <<clockVars, tmplVars, sideVars, recentReplies,
                   threadReplies, lastReplyTime, lastSpecialInteraction,
                   lastCheckedTweetId, nextSweepAt, pc, batch, cur,
                   histUserReply, histThreadReply, histPipelineId>>

NextSettings == Construct

SpecSettings == InitSettings /\ [][NextSettings]_vars

\* ------------------------------------------------------------------------
\* The thread reconstructor: buildConversationThread(tweet) with maxReplies
\* left at its default, limits.maxRepliesPerThread.  A tweet is
\* [id, inReplyToStatusId], 0 standing for no parent reference; getTweet
\* answers with the tweet of the store, with nothing, or fails.
\* ------------------------------------------------------------------------
ThreadIds == 1..MaxThreadTweets

ThreadStores ==
    { [i \in ThreadIds |-> [id |-> i, inReplyToStatusId |-> p[i]]] :
        p \in [ThreadIds -> 0..MaxThreadTweets] }

ThreadLimitChoices ==
    { [DefaultLimits EXCEPT !.maxRepliesPerThread = d] :
        d \in 1..MaxThreadDepth }

InitThread ==
    /\ InitClock
    /\ \E l \in ThreadLimitChoices : InitRateWith(l)
    /\ InitTemplates(PzCatalog)
    /\ store \in ThreadStores
    /\ leaf \in {store[i] : i \in ThreadIds}
    /\ tpc = "idle"
    /\ currentTweet = NoThreadTweet
    /\ depth = 0
    /\ thread = <<>>
    /\ visited = {}
    /\ lookupLog = <<>>
    /\ InitOther
    /\ InitPostWith(Undefined)
    /\ InitTruncIdle
    /\ lastAction = "Init"

StopsAt_OffByOne(tweet, d) ==
    \/ tweet = NoThreadTweet
    \/ d > limits.maxRepliesPerThread
    \/ tweet.id \in visited

StopsAt_Early(tweet, d) ==
    \/ tweet = NoThreadTweet
    \/ d + 1 >= limits.maxRepliesPerThread
    \/ tweet.id \in visited

StopsAt_NoCycleGuard(tweet, d) ==
    \/ tweet = NoThreadTweet
    \/ d >= limits.maxRepliesPerThread

\* !currentTweet || depth >= maxReplies || visited.has(currentTweet.id)
StopsAt(tweet, d) ==
    \/ tweet = NoThreadTweet
    \/ d >= limits.maxRepliesPerThread
    \/ tweet.id \in visited

processThreadTweet_Push(tweet) ==
    [visited |-> visited \cup {tweet.id}, thread |-> Append(thread, tweet)]

\* visited.add(tweet.id); thread.unshift(tweet)
processThreadTweet(tweet) ==
    [visited |-> visited \cup {tweet.id}, thread |-> <<tweet>> \o thread]

\* buildConversationThread is called: fresh thread and visited set,
\* processThread(tweet, 0)
BuildCall ==
    /\ tpc = "idle"
    /\ tpc' = "enter"
    /\ currentTweet' = leaf
    /\ depth' = 0
    /\ thread' = <<>>
    /\ visited' = {}
    /\ lastAction' = "BuildCall"
    /\ UNCHANGED <<clockVars, rateVars, tmplVars, postVars, truncVars, otherVars,
                   store, leaf, lookupLog>>

\* processThread is entered and returns at once
ProcessThreadStops ==
    /\ tpc = "enter"
    /\ StopsAt(currentTweet, depth)
    /\ tpc' = "returned"
    /\ lastAction' = "ProcessThreadStops"
    /\ UNCHANGED <<clockVars, rateVars, tmplVars, postVars, truncVars, otherVars,
                   store, leaf, currentTweet,
                   depth, thread, visited, lookupLog>>

\* processThread is entered and awaits processThreadTweet
ProcessThreadGoesOn ==
    /\ tpc = "enter"
    /\ ~StopsAt(currentTweet, depth)
    /\ tpc' = "memory"
    /\ lastAction' = "ProcessThreadGoesOn"
    /\ UNCHANGED <<clockVars, rateVars, tmplVars, postVars, truncVars, otherVars,
                   store, leaf, currentTweet,
                   depth, thread, visited, lookupLog>>

\* processThreadTweet is done: the tweet is in the chain; with a parent
\* reference getTweet is awaited, without one processThread returns
ProcessThreadTweetReturns ==
    /\ tpc = "memory"
    /\ LET t == processThreadTweet(currentTweet)
       IN /\ visited' = t.visited
          /\ thread' = t.thread
    /\ tpc' = IF currentTweet.inReplyToStatusId # 0
              THEN "lookup" ELSE "returned"
    /\ lastAction' = "ProcessThreadTweetReturns"
    /\ UNCHANGED <<clockVars, rateVars, tmplVars, postVars, truncVars, otherVars,
                   store, leaf, currentTweet,
                   depth, lookupLog>>

\* the memory store fails in processThreadTweet: below the leaf the error
\* is caught by the try around the recursive call, at the leaf it leaves
\* buildConversationThread
ProcessThreadTweetThrows ==
    /\ tpc = "memory"
    /\ tpc' = IF depth = 0 THEN "threw" ELSE "returned"
    /\ lastAction' = "ProcessThreadTweetThrows"
    /\ UNCHANGED <<clockVars, rateVars, tmplVars, postVars, truncVars, otherVars,
                   store, leaf, currentTweet,
                   depth, thread, visited, lookupLog>>

\* getTweet answers: with the parent, processThread(parentTweet, depth + 1)
\* is entered; with nothing, processThread returns
GetTweetReturns(found) ==
    /\ tpc = "lookup"
    /\ IF found /\ currentTweet.inReplyToStatusId \in DOMAIN store
       THEN /\ currentTweet' = store[currentTweet.inReplyToStatusId]
            /\ depth' = depth + 1
            /\ tpc' = "enter"
            /\ lookupLog' = Append(lookupLog, "found")
       ELSE /\ tpc' = "returned"
            /\ lookupLog' = Append(lookupLog, "absent")
            /\ UNCHANGED <<currentTweet, depth>>
    /\ lastAction' = "GetTweetReturns"
    /\ UNCHANGED <<clockVars, rateVars, tmplVars, postVars, truncVars, otherVars,
                   store, leaf, thread,
                   visited>>

\* getTweet fails: caught and logged, processThread returns
GetTweetThrows ==
    /\ tpc = "lookup"
    /\ tpc' = "returned"
    /\ lookupLog' = Append(lookupLog, "threw")
    /\ lastAction' = "GetTweetThrows"
    /\ UNCHANGED <<clockVars, rateVars, tmplVars, postVars, truncVars, otherVars,
                   store, leaf, currentTweet,
                   depth, thread, visited>>

NextThread ==
    \/ BuildCall
    \/ ProcessThreadStops
    \/ ProcessThreadGoesOn
    \/ ProcessThreadTweetReturns
    \/ ProcessThreadTweetThrows
    \/ \E found \in BOOLEAN : GetTweetReturns(found)
    \/ GetTweetThrows

\* every await of the walk is answered
SpecThread == InitThread /\ [][NextThread]_vars /\ WF_vars(NextThread)

\* ------------------------------------------------------------------------
\* The posting scheduler: TwitterPostClient.startPostingLoop and
\* generateNewTweet, for every start() call.  A start() is "notStarted",
\* awaits the generateNewTweet of the start-up post ("immediate"), awaits the
\* generateNewTweet of a loop run ("posting"), or waits for its setTimeout
\* ("timer").  The body of generateNewTweet awaits the generation
\* ("generating") and the sending with the cache update ("sending").
\* ------------------------------------------------------------------------
\* 5 * 60 * 1000
BACKOFF_MS == 300000
MINUTE_MS == 60000

\* Math.floor(Math.random() * (maxMinutes - minMinutes + 1)) + minMinutes,
\* times 60 * 1000
RandomDelay(r) ==
    (((r * (schedule.maxMinutes - schedule.minMinutes + 1)) \div 1000)
        + schedule.minMinutes) * MINUTE_MS

generateNewTweetSkips_Never(flag) == FALSE

\* generateNewTweet: if (this.isPosting) return
generateNewTweetSkips(flag) == flag

LoopTimer_Lost(delay) == 0

\* setTimeout(() => generateNewTweetLoop(), delay): the due time
LoopTimer(delay) == now + delay

AwaitTimer_Early(delay) == now + delay

\* the timer of a run that awaits generateNewTweet: the setTimeout comes
\* after the await, the timer that started the run is spent (0 = none)
AwaitTimer(delay) == 0

\* one run of generateNewTweetLoop by start() i up to its first suspension
\* point, isPosting being flag and schedule.lastPostTime being lastPost when
\* it begins: either generateNewTweet is called and sets the flag, or the
\* next run is scheduled
LoopRun(i, r, flag, lastPost) ==
    LET delay == RandomDelay(r)
    IN /\ loopDelay' = [loopDelay EXCEPT ![i] = delay]
       /\ IF now - lastPost >= delay /\ ~flag /\ ~generateNewTweetSkips(flag)
          THEN /\ isPosting' = TRUE
               /\ ppc' = [ppc EXCEPT ![i] = "posting"]
               /\ body' = [body EXCEPT ![i] = "generating"]
               /\ timerDue' = [timerDue EXCEPT ![i] = AwaitTimer(delay)]
          ELSE /\ isPosting' = flag
               /\ ppc' = [ppc EXCEPT ![i] = "timer"]
               /\ body' = [body EXCEPT ![i] = "none"]
               /\ timerDue' = [timerDue EXCEPT ![i] = LoopTimer(delay)]

\* mutant of initializePostSchedule: the cache entry is not looked at
initializePostSchedule_Forgets(lastPost) == 0

\* initializePostSchedule: lastPost?.timestamp ?? 0
initializePostSchedule(lastPost) ==
    IF lastPost = Undefined THEN 0 ELSE lastPost.n

\* start(postImmediately) number i: initializePostSchedule, then
\* startPostingLoop(postImmediately)
StartPosting(i, postImmediately, r) ==
    /\ ppc[i] = "notStarted"
    /\ schedule' = [schedule EXCEPT
                        !.lastPostTime = initializePostSchedule(cachedLastPost)]
    /\ IF postImmediately /\ ~generateNewTweetSkips(isPosting)
       THEN /\ isPosting' = TRUE
            /\ ppc' = [ppc EXCEPT ![i] = "immediate"]
            /\ body' = [body EXCEPT ![i] = "generating"]
            /\ UNCHANGED <<timerDue, loopDelay>>
       ELSE LoopRun(i, r, isPosting, initializePostSchedule(cachedLastPost))
    /\ actor' = i
    /\ lastAction' = "StartPosting"
    /\ UNCHANGED <<clockVars, rateVars, tmplVars, threadVars, truncVars, otherVars,
                   cachedLastPost>>

\* the timer of start() i fires: generateNewTweetLoop runs
TimerFires(i, r) ==
    /\ ppc[i] = "timer"
    /\ now >= timerDue[i]
    /\ LoopRun(i, r, isPosting, schedule.lastPostTime)
    /\ actor' = i
    /\ lastAction' = "TimerFires"
    /\ UNCHANGED <<clockVars, rateVars, tmplVars, threadVars, truncVars, otherVars,
                   schedule, cachedLastPost>>

\* mutant of BodyEnds: generateNewTweet without its finally block
BodyEnds_NoFinally(i, r, lastPost) ==
    IF ppc[i] = "posting"
    THEN /\ isPosting' = isPosting
         /\ ppc' = [ppc EXCEPT ![i] = "timer"]
         /\ body' = [body EXCEPT ![i] = "none"]
         /\ timerDue' = [timerDue EXCEPT ![i] = LoopTimer(loopDelay[i])]
         /\ UNCHANGED loopDelay
    ELSE LoopRun(i, r, isPosting, lastPost)

\* the body of generateNewTweet of start() i ends, schedule.lastPostTime
\* being lastPost: finally isPosting = false; the loop run that awaited it
\* schedules the next run with its delay, the start-up post is followed by
\* the first run of generateNewTweetLoop
BodyEnds(i, r, lastPost) ==
    IF ppc[i] = "posting"
    THEN /\ isPosting' = FALSE
         /\ ppc' = [ppc EXCEPT ![i] = "timer"]
         /\ body' = [body EXCEPT ![i] = "none"]
         /\ timerDue' = [timerDue EXCEPT ![i] = LoopTimer(loopDelay[i])]
         /\ UNCHANGED loopDelay
    ELSE LoopRun(i, r, FALSE, lastPost)

\* generateTweetContent answers; postTweet returns at once without content
\* and when TWITTER_DRY_RUN is "true"
GenerateReturns(i, content, dryRun, r) ==
    /\ body[i] = "generating"
    /\ IF content = "" \/ dryRun
       THEN BodyEnds(i, r, schedule.lastPostTime)
       ELSE /\ body' = [body EXCEPT ![i] = "sending"]
            /\ UNCHANGED <<isPosting, ppc, timerDue, loopDelay>>
    /\ actor' = i
    /\ lastAction' = "GenerateReturns"
    /\ UNCHANGED <<clockVars, rateVars, tmplVars, threadVars, truncVars, otherVars,
                   schedule, cachedLastPost>>

\* generateTweetContent fails: caught and logged by generateNewTweet
GenerateThrows(i, r) ==
    /\ body[i] = "generating"
    /\ BodyEnds(i, r, schedule.lastPostTime)
    /\ actor' = i
    /\ lastAction' = "GenerateThrows"
    /\ UNCHANGED <<clockVars, rateVars, tmplVars, threadVars, truncVars, otherVars,
                   schedule, cachedLastPost>>

\* the tweet is sent and updateCaches writes the cache entry and sets
\* schedule.lastPostTime
SendReturns(i, r) ==
    /\ body[i] = "sending"
    /\ cachedLastPost' = Num(now)
    /\ schedule' = [schedule EXCEPT !.lastPostTime = now]
    /\ BodyEnds(i, r, now)
    /\ actor' = i
    /\ lastAction' = "SendReturns"
    /\ UNCHANGED <<clockVars, rateVars, tmplVars, threadVars, truncVars, otherVars>>

\* sending or the cache update fails: rethrown by postTweet, caught and
\* logged by generateNewTweet
SendThrows(i, r) ==
    /\ body[i] = "sending"
    /\ BodyEnds(i, r, schedule.lastPostTime)
    /\ actor' = i
    /\ lastAction' = "SendThrows"
    /\ UNCHANGED <<clockVars, rateVars, tmplVars, threadVars, truncVars, otherVars,
                   schedule, cachedLastPost>>

\* clock advances that are observed by the posting scheduler
PostDeltas == {BACKOFF_MS, 90 * MINUTE_MS, 180 * MINUTE_MS}

\* what the cache holds for lastPost when the client is constructed
LastPostChoices == {Undefined, Num(StartTime)}

InitPost ==
    /\ InitClock
    /\ InitRateWith(DefaultLimits)
    /\ InitTemplates(PzCatalog)
    /\ InitThreadIdle
    /\ \E lastPost \in LastPostChoices : InitPostWith(lastPost)
    /\ InitTruncIdle
    /\ InitOther
    /\ lastAction = "Init"

GeneratedContents == {"", "gm"}

NextPost ==
    \/ \E d \in PostDeltas : ClockAdvances(d)
    \/ \E i \in Starters : \E postImmediately \in BOOLEAN :
         \E r \in RandomDraws : StartPosting(i, postImmediately, r)
    \/ \E i \in Starters : \E r \in RandomDraws : TimerFires(i, r)
    \/ \E i \in Starters : \E content \in GeneratedContents :
         \E dryRun \in BOOLEAN : \E r \in RandomDraws :
             GenerateReturns(i, content, dryRun, r)
    \/ \E i \in Starters : \E r \in RandomDraws : GenerateThrows(i, r)
    \/ \E i \in Starters : \E r \in RandomDraws : SendReturns(i, r)
    \/ \E i \in Starters : \E r \in RandomDraws : SendThrows(i, r)

SpecPost == InitPost /\ [][NextPost]_vars

\* ------------------------------------------------------------------------
\* truncateToCompleteSentence(text); a text is the sequence of its
\* characters, " " the only whitespace in the texts used
\* ------------------------------------------------------------------------
MAX_TWEET_LENGTH == 280

Ellipsis == <<".", ".", ".">>

\* s.lastIndexOf(ch, fromIndex): the last index (from 0) not beyond
\* fromIndex at which ch occurs, -1 if there is none
LastIndexOf(s, ch, fromIndex) ==
    LET found == {k \in 0..(Len(s) - 1) : k <= fromIndex /\ s[k + 1] = ch}
    IN IF found = {} THEN -1
       ELSE CHOOSE k \in found : \A j \in found : j <= k

\* s.slice(0, end): a negative end counts from the end of s
Slice(s, end) ==
    LET e == IF end < 0 THEN Len(s) + end ELSE end
    IN IF e <= 0 THEN <<>>
       ELSE IF e >= Len(s) THEN s
       ELSE SubSeq(s, 1, e)

\* s.trim()
Trim(s) ==
    LET inked == {k \in 1..Len(s) : s[k] # " "}
    IN IF inked = {} THEN <<>>
       ELSE SubSeq(s, CHOOSE k \in inked : \A j \in inked : k <= j,
                      CHOOSE k \in inked : \A j \in inked : j <= k)

truncateToCompleteSentence(t) ==
    IF Len(t) <= MAX_TWEET_LENGTH THEN t
    ELSE LET truncatedAtPeriod ==
                 Slice(t, LastIndexOf(t, ".", MAX_TWEET_LENGTH) + 1)
             truncatedAtSpace ==
                 Slice(t, LastIndexOf(t, " ", MAX_TWEET_LENGTH))
         IN IF Len(Trim(truncatedAtPeriod)) > 0
            THEN Trim(truncatedAtPeriod)
            ELSE IF Len(Trim(truncatedAtSpace)) > 0
                 THEN Trim(truncatedAtSpace) \o Ellipsis
                 ELSE Trim(Slice(t, MAX_TWEET_LENGTH - 3)) \o Ellipsis

\* the texts: n characters fill, but for one character ch at place pos
\* (from 1; 0 for nowhere)
TextOf(n, fill, ch, pos) == [k \in 1..n |-> IF k = pos THEN ch ELSE fill]

TextLengths ==
    {MAX_TWEET_LENGTH - 1, MAX_TWEET_LENGTH, MAX_TWEET_LENGTH + 1,
     MaxTextLength}

TextPlaces ==
    {0, 1, 2, MAX_TWEET_LENGTH - 3, MAX_TWEET_LENGTH - 2,
     MAX_TWEET_LENGTH - 1, MAX_TWEET_LENGTH, MAX_TWEET_LENGTH + 1,
     MAX_TWEET_LENGTH + 2, MAX_TWEET_LENGTH + 3}

TextInputs ==
    {TextOf(n, fill, ch, pos) :
        n \in TextLengths, fill \in {"a", " "}, ch \in {".", " "},
        pos \in TextPlaces}

InitTruncate ==
    /\ InitClock
    /\ InitRateWith(DefaultLimits)
    /\ InitTemplates(PzCatalog)
    /\ InitThreadIdle
    /\ InitPostWith(Undefined)
    /\ text \in TextInputs
    /\ truncated = <<>>
    /\ InitOther
    /\ lastAction = "Init"

\* generateTweetContent hands the generated text to
\* truncateToCompleteSentence
Truncate ==
    /\ lastAction = "Init"
    /\ truncated' = truncateToCompleteSentence(text)
    /\ lastAction' = "Truncate"
    /\ UNCHANGED <<clockVars, rateVars, tmplVars, threadVars, postVars,
                   otherVars, text>>

NextTruncate == Truncate

SpecTruncate == InitTruncate /\ [][NextTruncate]_vars

\* ------------------------------------------------------------------------
\* The two schedulers and the client they share.  TwitterManager builds one
\* TemplateEnhancedTwitterClient, hence one TwitterTemplateManager and one
\* lastTemplateUse table, and hands it to the post client and to the
\* interaction client alike; both reach getTemplate through
\* generateTweetContent and getEnhancedTemplate.  determineTemplateType is
\* left open: any group name can come out of it.
\* ------------------------------------------------------------------------
\* getEnhancedTemplate called in a tick of the scheduler who
getEnhancedTemplate(who, type, context) ==
    /\ \E draws \in [1..GroupSize(type) -> RandomDraws] :
         \E k \in 0..GroupSize(type) : getTemplate(type, context, draws, k)
    /\ tableWriters' = IF lastTemplateUse' # lastTemplateUse
                       THEN tableWriters \cup {who}
                       ELSE tableWriters
    /\ UNCHANGED <<clockVars, rateVars, threadVars, postVars, truncVars,
                   managerVars, templates, lastGeneratedContent,
                   generations, generated>>

\* processSingleTweet: handleTweet of the shared client generates the reply
EngagementGenerates(type, context) ==
    /\ getEnhancedTemplate("engagement", type, context)
    /\ lastAction' = "EngagementGenerates"

\* generateNewTweet: generateTweetContent of the shared client generates the
\* post
PostingGenerates(type, context) ==
    /\ getEnhancedTemplate("posting", type, context)
    /\ lastAction' = "PostingGenerates"

InitOwnership ==
    /\ InitClock
    /\ InitRateWith(DefaultLimits)
    /\ InitTemplates(PzCatalog)
    /\ InitSide
    /\ lastAction = "Init"

NextOwnership ==
    \/ ClockAdvances(COOLDOWN_MS)
    \/ \E type \in TemplateTypes : \E context \in DOMAIN Contexts :
           EngagementGenerates(type, context)
    \/ \E type \in TemplateTypes : \E context \in DOMAIN Contexts :
           PostingGenerates(type, context)

SpecOwnership == InitOwnership /\ [][NextOwnership]_vars

\* ------------------------------------------------------------------------
\* generateTweetContent of the shared client with its 60-second cache of
\* generated content.  The style of the catalog has hashtags and emojis
\* switched off, so formatTweet adds nothing to the cleaned text.
\* ------------------------------------------------------------------------
DEDUPE_WINDOW_MS == 60000
DEDUPE_PREFIX == 50

MaxGenerations == 2

\* clock advances around the window of the cache
CacheDeltas == {DEDUPE_WINDOW_MS - 1, DEDUPE_WINDOW_MS}

\* a tweet text of DEDUPE_PREFIX + 1 characters
LongPost(last) ==
    [k \in 1..(DEDUPE_PREFIX + 1) |-> IF k <= DEDUPE_PREFIX THEN "a" ELSE last]

\* the contexts generateTweetContent is called with: the post client's
\* (no currentPost) and handleTweet's for three tweets that are replies
Requests ==
    { [who |-> "posting", isReply |-> FALSE, currentPost |-> Undefined] }
    \cup { [who |-> "engagement", isReply |-> TRUE, currentPost |-> Str(t)] :
             t \in {<<"b">>, LongPost("x"), LongPost("y")} }

\* a catalog with one group of one template
SoloCatalog == [pz |-> <<PzCatalog.pz[2]>>]

\* what generateShouldRespond answers
Decisions == {"RESPOND", "IGNORE"}

\* response.text of generateMessageResponse
OracleTexts == {<<" ">>, <<"o", " ", " ", "k">>}

\* what awaiting generateMessageResponse gives: a text, or an error thrown
Thrown == [t |-> "error"]
OracleAnswers == {Str(t) : t \in OracleTexts} \cup {Thrown}

\* JSON.stringify of a string without quotes or backslashes
JsonString(str) == <<"\"">> \o str \o <<"\"">>

\* JSON.stringify({isReply, currentPost: currentPost?.slice(0, 50)}): a
\* member whose value is undefined is left out
dedupeKey(context) ==
    <<"{", "\"", "i", "s", "R", "e", "p", "l", "y", "\"", ":">>
    \o (IF context.isReply THEN <<"t", "r", "u", "e">>
        ELSE <<"f", "a", "l", "s", "e">>)
    \o (IF context.currentPost = Undefined THEN <<>>
        ELSE <<",", "\"", "c", "u", "r", "r", "e", "n", "t", "P", "o", "s",
               "t", "\"", ":">>
             \o JsonString(Slice(context.currentPost.s, DEDUPE_PREFIX)))
    \o <<"}">>

\* text.replace(/\s+/g, ' ')
CollapseSpaces(str) ==
    LET kept == {k \in 1..Len(str) : ~(str[k] = " " /\ k > 1 /\ str[k - 1] = " ")}
        Nth(n) == CHOOSE k \in kept : Cardinality({j \in kept : j <= k}) = n
    IN [n \in 1..Cardinality(kept) |-> str[Nth(n)]]

\* ContentFormatter.formatText
formatText(str) == Trim(CollapseSpaces(str))

\* [tweetContent, emojiString, hashtagString].filter(str => str).join(' ')
JoinFilled(parts) ==
    LET filled == SelectSeq(parts, LAMBDA part : part # <<>>)
        Joined[n \in 0..Len(filled)] ==
            IF n = 0 THEN <<>>
            ELSE IF n = 1 THEN filled[1]
            ELSE Joined[n - 1] \o <<" ">> \o filled[n]
    IN Joined[Len(filled)]

\* TwitterTemplateManager.formatTweet
formatTweet(tweet, emojiString, hashtagString) ==
    Trim(JoinFilled(<<formatText(tweet), emojiString, hashtagString>>))

\* the entry is there and less than 60 seconds old
IsFresh(key) ==
    /\ key \in DOMAIN lastGeneratedContent
    /\ now - lastGeneratedContent[key].timestamp < DEDUPE_WINDOW_MS

\* generateTweetContent(context): decision is the answer of shouldRespond,
\* answer what the oracle gives
generateTweetContent(context, decision, answer) ==
    /\ \E key \in {dedupeKey(context)} :
          IF IsFresh(key)
          THEN /\ generated' = [key |-> key, hit |-> TRUE, selected |-> FALSE,
                                asked |-> FALSE, oracle |-> FALSE,
                                threw |-> FALSE,
                                content |-> lastGeneratedContent[key].content]
               /\ UNCHANGED <<tmplVars, tableWriters, lastGeneratedContent,
                              generations>>
          ELSE /\ \E draws \in [1..GroupSize("pz") -> RandomDraws] :
                    \E k \in 0..GroupSize("pz") :
                        getTemplate("pz", "morning", draws, k)
               /\ tableWriters' = IF lastTemplateUse' # lastTemplateUse
                                  THEN tableWriters \cup {context.who}
                                  ELSE tableWriters
               /\ UNCHANGED templates
               /\ IF context.isReply /\ decision # "RESPOND"
                  THEN /\ generated' = [key |-> key, hit |-> FALSE,
                                        selected |-> TRUE, asked |-> TRUE,
                                        oracle |-> FALSE, threw |-> FALSE,
                                        content |-> <<>>]
                       /\ UNCHANGED <<lastGeneratedContent, generations>>
                  ELSE IF answer = Thrown
                  THEN /\ generated' = [key |-> key, hit |-> FALSE,
                                        selected |-> TRUE,
                                        asked |-> context.isReply,
                                        oracle |-> TRUE, threw |-> TRUE,
                                        content |-> <<>>]
                       /\ UNCHANGED <<lastGeneratedContent, generations>>
                  ELSE LET formattedContent == formatTweet(answer.s, <<>>, <<>>)
                       IN /\ generations < MaxGenerations
                          /\ generations' = generations + 1
                          /\ lastGeneratedContent' =
                                MapSet(lastGeneratedContent, key,
                                       [timestamp |-> now,
                                        content |-> formattedContent])
                          /\ generated' = [key |-> key, hit |-> FALSE,
                                           selected |-> TRUE,
                                           asked |-> context.isReply,
                                           oracle |-> TRUE, threw |-> FALSE,
                                           content |-> formattedContent]
    /\ lastAction' = "GenerateTweetContent"
    /\ UNCHANGED <<clockVars, rateVars, threadVars, postVars, truncVars,
                   managerVars>>

InitGenerate ==
    /\ InitClock
    /\ InitRateWith(DefaultLimits)
    /\ InitTemplates(SoloCatalog)
    /\ InitSide
    /\ lastAction = "Init"

NextGenerate ==
    \/ \E d \in CacheDeltas : ClockAdvances(d)
    \/ \E context \in Requests : \E decision \in Decisions :
         \E answer \in OracleAnswers :
             generateTweetContent(context, decision, answer)

SpecGenerate == InitGenerate /\ [][NextGenerate]_vars

\* the same with requests that keep coming
SpecGenerateLive == SpecGenerate /\ WF_vars(NextGenerate)

\* the dedupe keys of the requests
DedupeKeys == {dedupeKey(context) : context \in Requests}

\* the entry is there and at least 60 seconds old
IsStale(key) ==
    /\ key \in DOMAIN lastGeneratedContent
    /\ now - lastGeneratedContent[key].timestamp >= DEDUPE_WINDOW_MS

\* ------------------------------------------------------------------------
\* The template selector with a catalog whose conditions name fields that
\* no context has: z, and the dotted m.t.q (m.t is a string in the morning,
\* m is missing at night).  One group per operator, named after it.
\* ------------------------------------------------------------------------
AbsentField == <<"z">>
AbsentDottedField == <<"m", ".", "t", ".", "q">>

AbsentCatalog ==
    [contains |->
        << [name |-> 5,
            conditions |-> Conditions(
              << [field |-> AbsentField, operator |-> "contains",
                  value |-> Str(<<"f", "i", "n", "e">>)] >>),
            probability |-> NoProbability] >>,
     equals |->
        << [name |-> 6,
            conditions |-> Conditions(
              << [field |-> AbsentField, operator |-> "equals",
                  value |-> Str(<<"u", "n", "d", "e", "f", "i", "n", "e",
                                  "d">>)] >>),
            probability |-> NoProbability] >>,
     greaterThan |->
        << [name |-> 7,
            conditions |-> Conditions(
              << [field |-> AbsentDottedField, operator |-> "greaterThan",
                  value |-> Num(0)] >>),
            probability |-> NoProbability] >>,
     lessThan |->
        << [name |-> 8,
            conditions |-> Conditions(
              << [field |-> AbsentField, operator |-> "lessThan",
                  value |-> Num(1)] >>),
            probability |-> NoProbability] >>,
     matches |->
        << [name |-> 9,
            conditions |-> Conditions(
              << [field |-> AbsentDottedField, operator |-> "matches",
                  value |-> Str(<<"d", ".", "f">>)] >>),
            probability |-> NoProbability] >>]

InitAbsent ==
    /\ InitClock
    /\ InitRateWith(DefaultLimits)
    /\ InitTemplates(AbsentCatalog)
    /\ InitSide
    /\ lastAction = "Init"

NextAbsent ==
    \/ \E d \in TemplateDeltas : ClockAdvances(d)
    \/ \E type \in DOMAIN AbsentCatalog : \E context \in DOMAIN Contexts :
           GetTemplateCall(type, context)

SpecAbsent == InitAbsent /\ [][NextAbsent]_vars

\* ------------------------------------------------------------------------
\* TwitterManager loading the special-interactions mapping: the entries of
\* the file are JavaScript values, a field that the file does not give is
\* undefined
\* ------------------------------------------------------------------------
\* !!v
ToBoolean(v) ==
    CASE v.t = "undefined" -> FALSE
      [] v.t = "NaN" -> FALSE
      [] v.t = "number" -> v.n # 0
      [] v.t = "string" -> v.s # <<>>
      [] v.t = "object" -> TRUE

SpecialKeys == {"h1", "h2"}

\* entries a file can hold: handle and templates given or not, probability
\* not given, 0 or 0.5 (in thousandths)
EntryChoices ==
    { [handle |-> h, templates |-> t, probability |-> p] :
        h \in {Undefined, Str(<<"h", "1">>)},
        t \in {Undefined, Obj(EmptyMap)},
        p \in {Undefined, Num(0), Num(500)} }

\* specialInteractionSchema: a string, an array and a number from 0 to 1
WellFormed(entry) ==
    /\ entry.handle.t = "string"
    /\ entry.templates.t = "object"
    /\ entry.probability.t = "number"
    /\ entry.probability.n \in 0..1000

\* the entries setupSpecialInteractions leaves in the mapping: it deletes
\* those with !handle || !templates || !probability
setupSpecialInteractions(interactions) ==
    LET kept == {k \in DOMAIN interactions :
                    /\ ToBoolean(interactions[k].handle)
                    /\ ToBoolean(interactions[k].templates)
                    /\ ToBoolean(interactions[k].probability)}
    IN [k \in kept |-> interactions[k]]

\* lastSpecialInteraction after setSpecialInteractions(interactions)
setSpecialInteractions(record, interactions) ==
    [k \in (DOMAIN record) \cup (DOMAIN interactions) |->
        IF k \in DOMAIN interactions THEN 0 ELSE record[k]]

InitLoad ==
    /\ InitClock
    /\ InitRateWith(DefaultLimits)
    /\ InitTemplates(PzCatalog)
    /\ InitThreadIdle /\ InitPostWith(Undefined) /\ InitTruncIdle /\ InitShare
    /\ loaded \in [SpecialKeys -> EntryChoices]
    /\ installed = [s \in Schedulers |-> EmptyMap]
    /\ configured = NoSettings
    /\ lastAction = "Init"

\* loadSpecialInteractions found and parsed the file
LoadSpecialInteractions ==
    /\ lastAction = "Init"
    /\ LET interactions == setupSpecialInteractions(loaded)
       IN /\ installed' = [s \in Schedulers |-> interactions]
          /\ lastSpecialInteraction' =
                 setSpecialInteractions(lastSpecialInteraction, interactions)
    /\ lastAction' = "LoadSpecialInteractions"
    /\ UNCHANGED <<clockVars, tmplVars, threadVars, postVars, truncVars,
                   shareVars, loaded, configured, limits, recentReplies,
                   threadReplies,
                   lastReplyTime, lastCheckedTweetId, nextSweepAt, pc, batch,
                   cur, histUserReply, histThreadReply, histPipelineId>>

\* no file was found, or it could not be read or parsed: logged, nothing
\* is installed
LoadFails ==
    /\ lastAction = "Init"
    /\ lastAction' = "LoadFails"
    /\ UNCHANGED <<clockVars, rateVars, tmplVars, sideVars>>

NextLoad == LoadSpecialInteractions \/ LoadFails

SpecLoad == InitLoad /\ [][NextLoad]_vars

\* claim C1: in every reachable state no user's reply count exceeds
\* maxRepliesPerUser and no thread's reply count exceeds maxRepliesPerThread
C1_QuotasNeverExceeded ==
    /\ \A u \in DOMAIN recentReplies :
           recentReplies[u] <= limits.maxRepliesPerUser
    /\ \A c \in DOMAIN threadReplies :
           threadReplies[c] <= limits.maxRepliesPerThread

C1_Witness ==
    /\ lastAction = "Rejected"
    /\ \E u \in DOMAIN recentReplies :
           recentReplies[u] = limits.maxRepliesPerUser
    /\ \E c \in DOMAIN threadReplies :
           threadReplies[c] = limits.maxRepliesPerThread

\* claim C2: canReplyToUser(userId) is true exactly when the user's count is
\* below maxRepliesPerUser and the time since the user's last reply is at
\* least minTimeBetweenReplies; a user never seen before has count 0 and no
\* last reply and is admissible
C2_CanReplyToUserIff ==
    \A u \in Users :
        canReplyToUser(u) <=>
            /\ (IF u \in DOMAIN recentReplies THEN recentReplies[u] ELSE 0)
                   < limits.maxRepliesPerUser
            /\ \/ u \notin DOMAIN lastReplyTime
               \/ now - lastReplyTime[u] >= limits.minTimeBetweenReplies

C2_Witness ==
    /\ \E u \in Users : u \notin DOMAIN lastReplyTime /\ canReplyToUser(u)
    /\ \E v \in DOMAIN lastReplyTime :
           /\ recentReplies[v] < limits.maxRepliesPerUser
           /\ ~canReplyToUser(v)

\* claim C3: a user whose count has reached maxRepliesPerUser is refused by
\* canReplyToUser, and as long as no sweep runs stays at the cap and refused
\* at every later time
C3_CappedUserStaysBlocked ==
    /\ [](\A u \in Users :
            GetOrZero(recentReplies, u) >= limits.maxRepliesPerUser
                => ~canReplyToUser(u))
    /\ [][\A u \in Users :
            (/\ GetOrZero(recentReplies, u) >= limits.maxRepliesPerUser
             /\ lastAction' # "Sweep")
                => GetOrZero(recentReplies', u) >= limits.maxRepliesPerUser]_vars

C3_Witness ==
    /\ lastAction = "Tick"
    /\ \E u \in DOMAIN recentReplies :
           /\ recentReplies[u] >= limits.maxRepliesPerUser
           /\ now - lastReplyTime[u] >= limits.minTimeBetweenReplies

\* claim C4 as stated: less than minTimeBetweenReplies after a recorded
\* reply to a user canReplyToUser is false for that user, and two
\* consecutive recorded replies to a user are at least minTimeBetweenReplies
\* apart
C4_Original ==
    /\ [](\A u \in DOMAIN histUserReply :
            now - histUserReply[u] < limits.minTimeBetweenReplies
                => ~canReplyToUser(u))
    /\ [][(lastAction' = "Responded" /\ cur.userId \in DOMAIN histUserReply)
            => now - histUserReply[cur.userId]
                   >= limits.minTimeBetweenReplies]_vars

\* claim C4, amended: the same holds while the user's entry has not been
\* removed by a sweep, and always when minTimeBetweenReplies is at most 24h
C4_Amended ==
    /\ [](\A u \in DOMAIN histUserReply :
            (/\ now - histUserReply[u] < limits.minTimeBetweenReplies
             /\ (u \in DOMAIN lastReplyTime
                 \/ limits.minTimeBetweenReplies <= ONE_DAY))
                => ~canReplyToUser(u))
    /\ [][(/\ lastAction' = "Responded"
           /\ cur.userId \in DOMAIN histUserReply
           /\ (cur.userId \in DOMAIN lastReplyTime
               \/ limits.minTimeBetweenReplies <= ONE_DAY))
            => now - histUserReply[cur.userId]
                   >= limits.minTimeBetweenReplies]_vars

C4_Witness ==
    /\ lastAction = "Responded"
    /\ \E u \in DOMAIN recentReplies : recentReplies[u] = 2

\* claim C5: recording a reply raises the user's count by one, raises the
\* conversation's count by one, sets the user's last reply time to now and
\* changes nothing for any other user or conversation
C5_RecordReply ==
    [][lastAction' = "Responded" =>
        LET u == cur.userId
            c == cur.conversationId
        IN /\ u \in DOMAIN recentReplies'
           /\ recentReplies'[u] = GetOrZero(recentReplies, u) + 1
           /\ c \in DOMAIN threadReplies'
           /\ threadReplies'[c] = GetOrZero(threadReplies, c) + 1
           /\ u \in DOMAIN lastReplyTime'
           /\ lastReplyTime'[u] = now
           /\ MapDelete(recentReplies', {u}) = MapDelete(recentReplies, {u})
           /\ MapDelete(lastReplyTime', {u}) = MapDelete(lastReplyTime, {u})
           /\ MapDelete(threadReplies', {c}) = MapDelete(threadReplies, {c})]_vars

C5_Witness ==
    /\ lastAction = "Responded"
    /\ Cardinality(DOMAIN recentReplies) = 2
    /\ Cardinality(DOMAIN threadReplies) = 2

\* what a sweep does to the user entries: those last active before
\* now - 24h go, the others stay as they are
SweepOfUsers ==
    \A u \in DOMAIN lastReplyTime :
        IF lastReplyTime[u] < now - ONE_DAY
        THEN u \notin DOMAIN lastReplyTime' /\ u \notin DOMAIN recentReplies'
        ELSE /\ u \in DOMAIN lastReplyTime' /\ u \in DOMAIN recentReplies'
             /\ lastReplyTime'[u] = lastReplyTime[u]
             /\ recentReplies'[u] = recentReplies[u]

\* claim C6 as stated: a sweep removes every user and every thread entry
\* last active before now - 24h and leaves every other entry untouched
C6_Original ==
    [][lastAction' = "Sweep" =>
        /\ SweepOfUsers
        /\ \A c \in DOMAIN threadReplies :
              IF histThreadReply[c] < now - ONE_DAY
              THEN c \notin DOMAIN threadReplies'
              ELSE /\ c \in DOMAIN threadReplies'
                   /\ threadReplies'[c] = threadReplies[c]]_vars

\* claim C6, amended: a sweep removes every user entry last active before
\* now - 24h and leaves the other user entries untouched; it removes every
\* thread entry, whatever its last activity
C6_Amended ==
    [][lastAction' = "Sweep" =>
        /\ SweepOfUsers
        /\ DOMAIN threadReplies' = {}]_vars

C6_Witness ==
    /\ lastAction = "Sweep"
    /\ \E u \in DOMAIN histUserReply : u \notin DOMAIN lastReplyTime
    /\ \E v \in DOMAIN lastReplyTime : v \in DOMAIN recentReplies
    /\ \E c \in DOMAIN histThreadReply :
           /\ histThreadReply[c] >= now - ONE_DAY
           /\ c \notin DOMAIN threadReplies

\* claim C7: a reply count only goes down in a sweep, and the last reply
\* time of a user never goes down while the user is tracked
C7_Monotonic ==
    [][/\ \A u \in Users :
             GetOrZero(recentReplies', u) < GetOrZero(recentReplies, u)
                 => lastAction' = "Sweep"
       /\ \A c \in Conversations :
             GetOrZero(threadReplies', c) < GetOrZero(threadReplies, c)
                 => lastAction' = "Sweep"
       /\ \A u \in (DOMAIN lastReplyTime) \cap (DOMAIN lastReplyTime') :
             lastReplyTime'[u] >= lastReplyTime[u]]_vars

C7_Witness ==
    /\ lastAction = "Responded"
    /\ \E u \in DOMAIN lastReplyTime :
           /\ histUserReply[u] > StartTime
           /\ recentReplies[u] > 1
           /\ lastReplyTime[u] = now
    /\ \E v \in DOMAIN recentReplies : recentReplies[v] = 1

\* claim C8 as stated: getTemplate never returns a template whose name an
\* earlier getTemplate call returned less than 5 minutes before
C8_Original ==
    [][(/\ lastAction' = "GetTemplate"
        /\ ret'.selected # Null
        /\ ret'.selected.name \in DOMAIN histReturned)
          => now - histReturned[ret'.selected.name] >= COOLDOWN_MS]_vars

\* claim C8, amended: getTemplate never returns a template whose name an
\* earlier getTemplate call returned less than 5 minutes before, unless the
\* name was evicted from the cooldown table since then
C8_Amended ==
    [][(/\ lastAction' = "GetTemplate"
        /\ ret'.selected # Null
        /\ ret'.selected.name \in DOMAIN histReturned
        /\ ret'.selected.name \notin histEvicted)
          => now - histReturned[ret'.selected.name] >= COOLDOWN_MS]_vars

C8_Witness ==
    /\ lastAction = "GetTemplate"
    /\ ret.selected # Null
    /\ ret.again
    /\ ret.selected.name \notin histEvicted
    /\ histEvicted # {}

\* claim C9: a template with conditions is returned by getTemplate only if
\* every one of its conditions is true of the context of the call
C9_ConditionsAllHold ==
    ret.selected.conditions.present =>
        \A i \in 1..Len(ret.selected.conditions.list) :
            evaluateCondition(ret.selected.conditions.list[i],
                              Contexts[ret.context])

C9_Witness ==
    /\ ret.selected.name = 4
    /\ ret.context = "night"
    /\ \E i \in 1..Len(templates.cond) :
           /\ templates.cond[i].name = 3
           /\ ~conditionsHold(templates.cond[i], Contexts[ret.context])
           /\ ~isTemplateOnCooldown(3)

\* claim C10: in a group of a probability-0 and a probability-1 template
\* without conditions, getTemplate never returns the probability-0 template
\* and returns the probability-1 template whenever that one is not on
\* cooldown
C10_ProbabilityZeroNeverReturned ==
    [][(/\ lastAction' = "GetTemplate"
        /\ ret'.type = "pz"
        /\ "pz" \in DOMAIN templates)
          => /\ ret'.selected.name # 1
             /\ ~isTemplateOnCooldown(2) => ret'.selected.name = 2]_vars

\* claim C11: whatever the parent relation of the store, cycles and
\* self-references included, buildConversationThread comes to an end and its
\* chain never has more than maxRepliesPerThread elements
C11_TerminatesWithinDepth ==
    /\ <>(tpc \in {"returned", "threw"})
    /\ [](Len(thread) <= limits.maxRepliesPerThread)

C11_Witness ==
    /\ tpc = "returned"
    /\ lastAction = "ProcessThreadStops"
    /\ currentTweet.id \in visited
    /\ depth < limits.maxRepliesPerThread
    /\ Len(thread) > 1

\* claim C12: when the leaf has no parent reference, or getTweet answers
\* the leaf's parent reference with nothing, the returned chain is the leaf
\* alone
C12_LeafOnly ==
    (/\ tpc = "returned"
     /\ \/ leaf.inReplyToStatusId = 0
        \/ lookupLog = <<"absent">>)
        => thread = <<leaf>>

C12_Witness ==
    /\ tpc = "returned"
    /\ leaf.inReplyToStatusId # 0
    /\ lookupLog = <<"absent">>
    /\ thread = <<leaf>>

\* claim C13: when a getTweet call fails, buildConversationThread returns
\* and does not fail; the chain holds the tweets visited before the
\* failure, each the parent of the next, and ends with the leaf
C13_LookupFailureTruncates ==
    (lookupLog # <<>> /\ lookupLog[Len(lookupLog)] = "threw")
        => /\ tpc = "returned"
           /\ Len(thread) = Len(lookupLog)
           /\ thread[Len(thread)] = leaf
           /\ \A i \in 1..(Len(thread) - 1) :
                  thread[i].id = thread[i + 1].inReplyToStatusId
           /\ {thread[i].id : i \in 1..Len(thread)} = visited

C13_Witness ==
    /\ tpc = "returned"
    /\ Len(lookupLog) > 1
    /\ lookupLog[Len(lookupLog)] = "threw"
    /\ thread[1] # leaf

\* claim C14: a candidate whose id exceeds lastCheckedTweetId when it is
\* considered leaves lastCheckedTweetId equal to its id, whether it was
\* rejected by the filters or admitted and answered by the pipeline
C14_MarkAdvancesOnEveryCandidate ==
    [][/\ lastAction' = "Rejected" => lastCheckedTweetId' = Head(batch).id
       /\ lastAction' \in {"Responded", "NotResponded"}
              => lastCheckedTweetId' = cur.id]_vars

\* claim C15: an error raised while one candidate is processed leaves the
\* later candidates of the batch to be considered
C15_ErrorConfinedToCandidate ==
    [][lastAction' = "PipelineThrows" => batch' = batch]_vars

\* claim C16: with the settings maxRepliesPerUser 1, minTimeBetweenReplies 0
\* and replyProbability 1, no user ever has more than one recorded reply: a
\* candidate of a user without a recorded reply is admitted whatever the
\* random draw (its thread permitting), and a candidate of a user with a
\* recorded reply is rejected, canReplyToUser being false
C16_SecondCandidateRejected ==
    /\ [](\A u \in DOMAIN recentReplies : recentReplies[u] = 1)
    /\ [][(/\ pc = "loop" /\ batch # <<>> /\ batch' = Tail(batch)
           /\ \/ lastCheckedTweetId = 0
              \/ Head(batch).id > lastCheckedTweetId)
            => IF Head(batch).userId \in DOMAIN recentReplies
               THEN /\ lastAction' = "Rejected"
                    /\ ~canReplyToUser(Head(batch).userId)
               ELSE canReplyInThread(Head(batch).conversationId)
                        => lastAction' = "Admitted"]_vars

C16_Witness ==
    /\ lastAction = "Rejected"
    /\ pc = "loop"
    /\ ticks = 0
    /\ lastCheckedTweetId = 1
    /\ DOMAIN recentReplies = {"u1"}
    /\ recentReplies["u1"] = 1
    /\ threadReplies["c1"] = 1
    /\ limits = constructorLimits(ScenarioSettings)

\* claim C17: at any time at most one start() is in the body of
\* generateNewTweet, and isPosting is set exactly while one is
C17_AtMostOneInFlight ==
    /\ Cardinality({i \in Starters : body[i] # "none"}) <= 1
    /\ isPosting <=> \E i \in Starters : body[i] # "none"

C17_Witness ==
    /\ lastAction = "StartPosting"
    /\ ppc[actor] = "timer"
    /\ isPosting
    /\ \E i \in Starters \ {actor} : body[i] = "sending"

\* claim C18: a timer that fires while isPosting is set starts no
\* generation, leaves the flag and the schedule alone, and schedules the
\* next run after the delay it drew
C18_BusyFiringSkipped ==
    [][(lastAction' = "TimerFires" /\ isPosting)
          => /\ body' = body
             /\ isPosting'
             /\ schedule' = schedule
             /\ ppc' = [ppc EXCEPT ![actor'] = "timer"]
             /\ loopDelay'[actor'] >= schedule.minMinutes * MINUTE_MS
             /\ loopDelay'[actor'] <= schedule.maxMinutes * MINUTE_MS
             /\ timerDue'[actor'] = now + loopDelay'[actor']]_vars

C18_Witness ==
    /\ lastAction = "TimerFires"
    /\ isPosting
    /\ ppc[actor] = "timer"
    /\ timerDue[actor] > now
    /\ \E i \in Starters \ {actor} : body[i] # "none"

\* claim C19: when the generation or the sending fails in a run of the
\* posting loop, the next run is scheduled 5 minutes later
C19_FailureBacksOffFiveMinutes ==
    [][(/\ lastAction' \in {"GenerateThrows", "SendThrows"}
        /\ ppc[actor'] = "posting")
          => /\ ppc'[actor'] = "timer"
             /\ timerDue'[actor'] = now + BACKOFF_MS]_vars

\* claim C20: what truncateToCompleteSentence returns is never longer than
\* MAX_TWEET_LENGTH, and a text within the limit is returned as it is
C20_WithinHardLimit ==
    lastAction = "Truncate"
        => /\ Len(truncated) <= MAX_TWEET_LENGTH
           /\ Len(text) <= MAX_TWEET_LENGTH => truncated = text

\* claim C21: a special interaction is admitted only when the cooldown of its
\* handle has elapsed since the handle last fired, and firing records the
\* time: when the pipeline answers a tweet of an account named in the
\* special-interactions mapping, lastSpecialInteraction of that handle is
\* the time of the answer, so that a second one within the cooldown can be
\* told from the first
C21_FiringStampsHandle ==
    [][(/\ lastAction' = "Responded"
        /\ UsernameOf(cur.userId) \in SpecialHandles)
       => /\ UsernameOf(cur.userId) \in DOMAIN lastSpecialInteraction'
          /\ lastSpecialInteraction'[UsernameOf(cur.userId)] = now]_vars

\* claim C22: no table of per-key state is written by both schedulers; for
\* the template cooldown table: the ticks that stamped lastTemplateUse all
\* belong to one scheduler, so that no tick of the posting scheduler changes
\* whether a template is on cooldown for the engagement scheduler
C22_SingleWriterPerTable == Cardinality(tableWriters) <= 1

C24_PipelineOncePerId ==
    [][lastAction' = "Admitted" => cur'.id # histPipelineId]_vars

\* claim C25: after every stamping the cooldown table holds at most 100
\* names; entries are deleted only when the stamping made it exceed 100, at
\* least half of them are deleted then, and no entry that stays is older
\* than an entry that is deleted
C25_EvictsOldest ==
    [][(lastAction' = "GetTemplate" /\ ret'.selected # Null) =>
        LET before == {lastTemplateUse[i] : i \in 1..Len(lastTemplateUse)}
            stamped == {e \in before : e.name # ret'.selected.name}
                           \cup {[name |-> ret'.selected.name, at |-> now]}
            kept == {lastTemplateUse'[i] : i \in 1..Len(lastTemplateUse')}
            evicted == stamped \ kept
        IN /\ Len(lastTemplateUse') <= MAX_TRACKED_TEMPLATES
           /\ Cardinality(kept) = Len(lastTemplateUse')
           /\ kept \subseteq stamped
           /\ evicted # {} =>
                  /\ Cardinality(stamped) > MAX_TRACKED_TEMPLATES
                  /\ 2 * Cardinality(evicted) >= Cardinality(stamped)
                  /\ \A e \in kept : \A f \in evicted : e.at >= f.at]_vars

\* the stamping of the 101st name has just deleted entries, older ones and
\* one as new as those that stay
C25_Witness ==
    /\ lastAction = "GetTemplate"
    /\ ret.selected # Null
    /\ Len(lastTemplateUse) = KEPT_TEMPLATES
    /\ \E n \in histEvicted : histReturned[n] < now
    /\ \E n \in histEvicted : histReturned[n] = now

\* claim C26: a condition whose field path is absent from the context never
\* matches, whatever its operator and value: getTemplate never returns a
\* template with a condition on a field the context of the call lacks
C26_AbsentPathNeverMatches ==
    \A i \in 1..Len(ret.selected.conditions.list) :
        getFieldValue(Contexts[ret.context],
                      ret.selected.conditions.list[i].field) # Undefined

\* claim C27: the chain buildConversationThread returns is oldest first:
\* the leaf is its last element, every element is the tweet getTweet gave
\* for the parent reference of the element after it, and no id occurs twice
C27_OldestFirst ==
    tpc = "returned" =>
        /\ thread # <<>>
        /\ thread[Len(thread)] = leaf
        /\ \A i \in 1..(Len(thread) - 1) :
               /\ thread[i + 1].inReplyToStatusId # 0
               /\ thread[i] = store[thread[i + 1].inReplyToStatusId]
        /\ \A i, j \in 1..Len(thread) : thread[i].id = thread[j].id => i = j

\* a chain of three tweets was returned after the walk met a tweet again
C27_Witness ==
    /\ tpc = "returned"
    /\ Len(thread) = 3
    /\ currentTweet.id \in visited
    /\ thread[1].inReplyToStatusId = thread[3].id

\* claim C28: the batch of the fetch step is in ascending order of the
\* numeric ids, whatever the numbers of digits, so that a candidate is
\* considered before the mark passes its id: of the candidates still to be
\* considered, none comes before one with a smaller id
C28_AscendingNumericIds ==
    \A i, j \in 1..Len(batch) : i < j => batch[i].id <= batch[j].id

\* claim C29: whatever the search returns, the batch of the fetch step has
\* no two elements with the same id and no element written by the agent's
\* own account
C29_DistinctIdsNoSelf ==
    /\ \A i, j \in 1..Len(batch) : batch[i].id = batch[j].id => i = j
    /\ \A i \in 1..Len(batch) : batch[i].userId # ProfileId

\* claim C30: a run of the posting loop draws a delay of a whole number of
\* minutes from minMinutes to maxMinutes, begins a post only if the time
\* since the last recorded post is at least that delay, and sets its timer
\* that delay ahead; so a post sent by a run of the loop is recorded at
\* least minMinutes after the post recorded before it
C30_PostsKeepTheirDistance ==
    [][\A i \in Starters :
        /\ loopDelay'[i] # loopDelay[i] =>
               \E minutes \in schedule.minMinutes..schedule.maxMinutes :
                   loopDelay'[i] = minutes * MINUTE_MS
        /\ (ppc'[i] = "posting" /\ ppc[i] # "posting") =>
               now - schedule'.lastPostTime >= loopDelay'[i]
        /\ (timerDue'[i] # timerDue[i] /\ ppc'[i] = "timer") =>
               timerDue'[i] = now + loopDelay'[i]
        /\ (lastAction' = "SendReturns" /\ actor' = i /\ ppc[i] = "posting")
               => now - schedule.lastPostTime
                      >= schedule.minMinutes * MINUTE_MS]_vars

\* a run of the loop is sending its post, exactly its delay of 90 minutes
\* after the last recorded post
C30_Witness ==
    \E i \in Starters :
        /\ ppc[i] = "posting"
        /\ body[i] = "sending"
        /\ schedule.lastPostTime = StartTime
        /\ loopDelay[i] = schedule.minMinutes * MINUTE_MS
        /\ now - schedule.lastPostTime = loopDelay[i]

\* claim C31: a text longer than the limit is cut at its last period within
\* the limit when there is one; otherwise at its last space within the
\* limit, with an ellipsis; otherwise it is cut hard within the limit, with
\* an ellipsis; what is kept is a trimmed prefix of the text
C31_PreferenceOrder ==
    (lastAction = "Truncate" /\ Len(text) > MAX_TWEET_LENGTH) =>
        LET periods == {k \in 1..MAX_TWEET_LENGTH : text[k] = "."}
            spaces == {k \in 1..MAX_TWEET_LENGTH : text[k] = " "}
            Last(S) == CHOOSE k \in S : \A j \in S : j <= k
            atPeriod == Trim(SubSeq(text, 1, Last(periods)))
            atSpace == Trim(SubSeq(text, 1, Last(spaces) - 1))
            hardCuts == {Trim(SubSeq(text, 1, k)) \o Ellipsis :
                            k \in 1..MAX_TWEET_LENGTH}
        IN IF periods # {} THEN truncated = atPeriod
           ELSE IF spaces # {} /\ atSpace # <<>>
                THEN truncated = atSpace \o Ellipsis
                ELSE truncated \in hardCuts

\* claim C32: when the special-interactions mapping is loaded, an entry is
\* dropped if and only if it is malformed; every well-formed entry, one with
\* probability 0 included, is installed unchanged in the clients of both
\* schedulers, whatever the other entries are
C32_DroppedIffMalformed ==
    lastAction = "LoadSpecialInteractions" =>
        \A s \in Schedulers : \A k \in SpecialKeys :
            /\ k \in DOMAIN installed[s] <=> WellFormed(loaded[k])
            /\ k \in DOMAIN installed[s] => installed[s][k] = loaded[k]

\* claim C33: every engagement limit has the value of its setting whenever
\* the setting is a number, 0 included, and its default (5 replies per
\* user, 300000 ms between replies, probability 0.5) only when the setting
\* is not configured or not a number
C33_OverrideWhenNumber ==
    lastAction = "Construct" =>
        /\ limits.maxRepliesPerThread =
               IF configured.MAX_REPLIES_PER_THREAD = NoSetting
               THEN limits.maxRepliesPerThread
               ELSE configured.MAX_REPLIES_PER_THREAD
        /\ limits.maxRepliesPerUser =
               IF configured.MAX_REPLIES_PER_USER = NoSetting
               THEN 5 ELSE configured.MAX_REPLIES_PER_USER
        /\ limits.minTimeBetweenReplies =
               IF configured.MIN_TIME_BETWEEN_REPLIES = NoSetting
               THEN DEFAULT_MIN_TIME_BETWEEN_REPLIES
               ELSE configured.MIN_TIME_BETWEEN_REPLIES
        /\ limits.replyProbability =
               IF configured.REPLY_PROBABILITY = NoSetting
               THEN 500 ELSE configured.REPLY_PROBABILITY

\* claim C34: a user's quota is reset only by the periodic sweep: a user who
\* has reached maxRepliesPerUser becomes answerable again only in a sweep
\* that runs more than 24h after the user's last recorded reply, after such
\* a sweep canReplyToUser is true for the user, and while no sweep is
\* overdue no user is still at the quota 48h after the last reply
C34_QuotaResetBySweep ==
    /\ [][\A u \in Users :
            /\ (/\ GetOrZero(recentReplies, u) >= limits.maxRepliesPerUser
                /\ canReplyToUser(u)')
                   => /\ lastAction' = "Sweep"
                      /\ u \in DOMAIN lastReplyTime
                      /\ now - lastReplyTime[u] > ONE_DAY
            /\ (/\ lastAction' = "Sweep"
                /\ u \in DOMAIN lastReplyTime
                /\ now - lastReplyTime[u] > ONE_DAY)
                   => /\ u \notin DOMAIN recentReplies'
                      /\ canReplyToUser(u)']_vars
    /\ [](\A u \in DOMAIN recentReplies :
            (/\ recentReplies[u] >= limits.maxRepliesPerUser
             /\ now - lastReplyTime[u] >= 2 * ONE_DAY)
                => now >= nextSweepAt)

C34_Witness ==
    /\ lastAction = "Sweep"
    /\ limits.maxRepliesPerUser = 1
    /\ \E u \in DOMAIN histUserReply :
           /\ u \notin DOMAIN recentReplies
           /\ now - histUserReply[u] = 2 * ONE_DAY
           /\ canReplyToUser(u)

\* claim C35: the cache of generated content stays bounded under a stream
\* of messages with distinct texts: an entry that has become older than the
\* 60-second window is eventually removed (or replaced by a fresh one)
C35_StaleEntriesRemoved ==
    \A key \in DedupeKeys : IsStale(key) ~> ~IsStale(key)

\* claim C40: a generateTweetContent request whose dedupe key has a
\* non-empty entry less than 60 seconds old returns the content of the
\* entry, selects no template, asks neither shouldRespond nor the oracle and
\* leaves the cooldown table unchanged; and an empty result is never cached
C40_DedupeHit ==
    /\ [][(/\ lastAction' = "GenerateTweetContent"
           /\ IsFresh(generated'.key)
           /\ lastGeneratedContent[generated'.key].content # <<>>)
            => /\ generated'.content
                    = lastGeneratedContent[generated'.key].content
               /\ ~generated'.selected
               /\ ~generated'.asked
               /\ ~generated'.oracle
               /\ lastTemplateUse' = lastTemplateUse
               /\ lastGeneratedContent' = lastGeneratedContent]_vars
    /\ [](\A key \in DOMAIN lastGeneratedContent :
             lastGeneratedContent[key].content # <<>>)

\* claim C36: in every reachable state of the engagement scheduler the users
\* with a reply count are the users with a last reply time: recording a
\* reply creates both entries and a sweep deletes both or neither
C36_SameUsersTracked == DOMAIN recentReplies = DOMAIN lastReplyTime

C36_Witness ==
    /\ lastAction = "Sweep"
    /\ \E u \in DOMAIN histUserReply :
           /\ u \notin DOMAIN recentReplies
           /\ u \notin DOMAIN lastReplyTime
    /\ \E v \in DOMAIN recentReplies : lastReplyTime[v] >= now - ONE_DAY

\* claim C37: the per-user counts, per-thread counts and last reply times
\* are unchanged by the handling of a candidate unless the pipeline returns
\* RESPOND: a candidate skipped by the id check, by a rate limit or by the
\* probability trial, one that is admitted and awaits its pipeline, and one
\* whose pipeline returns IGNORE or ERROR or throws leave them as they were
C37_RateStateFrame ==
    [][/\ lastAction' \in {"AlreadyChecked", "Rejected", "Admitted",
                           "NotResponded", "PipelineThrows"}
            => UNCHANGED <<recentReplies, threadReplies, lastReplyTime>>
       /\ (/\ <<recentReplies, threadReplies, lastReplyTime>>'
                 # <<recentReplies, threadReplies, lastReplyTime>>
           /\ lastAction' # "Sweep")
            => lastAction' = "Responded"]_vars

C37_Witness ==
    /\ lastAction = "NotResponded"
    /\ lastCheckedTweetId = 3
    /\ DOMAIN recentReplies = {"u1"}
    /\ recentReplies["u1"] = 1
    /\ threadReplies = MapSet(EmptyMap, "c1", 1)

\* claim C38: every generateNewTweet that set isPosting clears it when it
\* ends, whether the post was sent, no content was generated, or the
\* generation or the sending failed: after the step that ends it the flag is
\* set only if the loop run that follows a start-up post has begun a new
\* post in the same step, and the flag is never set while no post is in
\* flight
C38_FlagClearedAtEnd ==
    /\ [][(/\ lastAction' \in {"GenerateReturns", "GenerateThrows",
                               "SendReturns", "SendThrows"}
           /\ body'[actor'] # "sending")
            => IF isPosting'
               THEN /\ ppc[actor'] = "immediate"
                    /\ ppc'[actor'] = "posting"
                    /\ body'[actor'] = "generating"
               ELSE \A j \in Starters : body'[j] = "none"]_vars
    /\ [](isPosting => \E i \in Starters : body[i] # "none")

\* the sending of a post of the loop has just failed: the flag is clear and
\* the next run is scheduled
C38_Witness ==
    /\ lastAction = "SendThrows"
    /\ ~isPosting
    /\ ppc[actor] = "timer"
    /\ timerDue[actor] > now
    /\ \A j \in Starters : body[j] = "none"

\* claim C39 as stated: schedule.lastPostTime changes only when a post has
\* been sent and cached, then to the current time and never backwards; a run
\* that is skipped, has no content, is a dry run or fails leaves it unchanged
C39_Original ==
    [][/\ schedule'.lastPostTime # schedule.lastPostTime
            => /\ lastAction' = "SendReturns"
               /\ schedule'.lastPostTime = now
               /\ schedule'.lastPostTime >= schedule.lastPostTime
       /\ lastAction' \in {"TimerFires", "GenerateThrows", "SendThrows"}
            => schedule'.lastPostTime = schedule.lastPostTime
       /\ (lastAction' = "GenerateReturns" /\ body'[actor'] # "sending")
            => schedule'.lastPostTime = schedule.lastPostTime]_vars

\* claim C39, amended: schedule.lastPostTime is set by start() to the
\* timestamp of the cached lastPost entry, 0 without one; after that it
\* changes only when a post has been sent and cached, then to the current
\* time, which is written to the cache as well, and never backwards; a run
\* that is skipped, has no content, is a dry run or fails leaves it unchanged
C39_Amended ==
    [][/\ lastAction' = "StartPosting"
            => schedule'.lastPostTime = IF cachedLastPost = Undefined THEN 0
                                        ELSE cachedLastPost.n
       /\ (/\ schedule'.lastPostTime # schedule.lastPostTime
           /\ lastAction' # "StartPosting")
            => /\ lastAction' = "SendReturns"
               /\ schedule'.lastPostTime = now
               /\ cachedLastPost' = Num(now)
               /\ schedule'.lastPostTime >= schedule.lastPostTime
       /\ lastAction' \in {"TimerFires", "GenerateThrows", "SendThrows"}
            => schedule'.lastPostTime = schedule.lastPostTime
       /\ (lastAction' = "GenerateReturns" /\ body'[actor'] # "sending")
            => schedule'.lastPostTime = schedule.lastPostTime]_vars

\* a post of the loop was sent and cached after the start-up read of the
\* cached time of an earlier post
C39_Witness ==
    /\ lastAction = "SendReturns"
    /\ ppc[actor] = "timer"
    /\ schedule.lastPostTime = now
    /\ cachedLastPost = Num(now)
    /\ now - StartTime >= schedule.minMinutes * MINUTE_MS
    /\ \E i \in Starters : ppc[i] = "notStarted"

====
